---- MODULE Spec2Model ----
(***************************************************************************)
(* Threat-intelligence platform: the ingestion worker (cmd/ingestor), the  *)
(* lookup handlers (cmd/api) and the four stores they share: the           *)
(* ClickHouse file registry and IOC index, the Redis Bloom filter and the  *)
(* MinIO bucket.                                                           *)
(***************************************************************************)
EXTENDS Integers, Sequences, FiniteSets, TLC

VARIABLES
    fs,             \* filesystem: path -> [content, mtime, kind]
    clock,          \* wall clock, in ticks
    file_registry,  \* rows of threat_intel.file_registry, in insert order
    ioc_store,      \* rows of threat_intel.ioc_store, in insert order
    bloom,          \* items added to the Redis Bloom filter
    bucket,         \* MinIO bucket: object name -> bytes (NoObject when absent)
    run,            \* [n, active]: the n-th ingestor process, running or not
    walk,           \* paths the directory walk has still to visit
    jobs,           \* Ingestor.jobs channel
    wk,             \* per worker goroutine: position in processFile and locals
    stats,          \* Ingestor.stats
    hist,           \* completed processFile calls (history)
    faults,         \* number of store / filesystem failures so far (history)
    resp,           \* response of the last API request, until delivered
    sig,            \* the context Run was given is cancelled (signal received)
    walker,         \* [pc, late]: position of crawl in the WalkDir callback
    iresults,       \* Ingestor.results channel
    collected,      \* results the resultCollector has received (history)
    gate,           \* auth middleware: configuration, Redis counters, response
    shut            \* [pc, collector, batch]: position of Run in its shutdown

vars == <<fs, clock, file_registry, ioc_store, bloom, bucket, run, walk, jobs,
          wk, stats, hist, faults, resp, sig, walker, iresults, collected,
          gate, shut>>

\* the cancellation signal, the walker and the results channel
pipe == <<sig, walker, iresults, collected>>

-----------------------------------------------------------------------------
(* Bounds of the model *)

TicksPerSec == 2        \* sub-second resolution of the modelled clock
MaxTicks == 1           \* ticks the clock advances
MaxRuns == 2            \* ingestor processes started one after the other
MaxFaults == 1          \* injected store / filesystem failures
MaxReqLen == 2          \* length of the freely chosen /check requests
NumWorkers == 1         \* worker goroutines of one ingestor
MaxWorkers == 2         \* worker goroutines where the claim is about their number

(* Program constants *)

MaxIOCsPerRequest == 1000

-----------------------------------------------------------------------------
(* Small helpers *)

Range(s) == {s[i] : i \in 1..Len(s)}

RECURSIVE SumSeq(_)
SumSeq(s) == IF s = <<>> THEN 0 ELSE Head(s) + SumSeq(Tail(s))

Min(S) == CHOOSE x \in S : \A y \in S : x <= y
Max(S) == CHOOSE x \in S : \A y \in S : x >= y

-----------------------------------------------------------------------------
(* models.go *)

AllIOCTypes == <<"ipv4", "ipv6", "domain", "url", "md5", "sha1", "sha256", "email">>

ScanStatusClean == "clean"
ScanStatusInfected == "infected"
ScanStatusMisc == "misc"
ScanStatusFailed == "failed"

-----------------------------------------------------------------------------
(* The crawled tree.  A file body is a sequence of whitespace-separated     *)
(* tokens.                                                                 *)

WalkOrder == <<"/data/a.log", "/data/b.txt">>
Paths == Range(WalkOrder)

BodyAddrDomain == <<"Connected", "8.8.8.8", "EVIL.com">>
BodyAddr == <<"8.8.8.8", "8.8.8.8">>
BodyNone == <<"no", "indicators">>

\* the string of n copies of c
Rep(c, n) ==
    LET r[i \in 0..n] == IF i = 0 THEN "" ELSE c \o r[i - 1]
    IN r[n]

\* hexadecimal tokens of the three hash lengths, and around them
HexTokens ==
    {Rep("f", 32), Rep("0", 32), Rep("F", 32), "D41D8CD98F00B204E9800998ECF8427E",
     Rep("f", 40), Rep("0", 40), Rep("a1B2", 10),
     Rep("f", 64), Rep("0", 64), Rep("0aF9", 16),
     Rep("ab", 17), Rep("c", 31)}

\* URLs, bare and followed by punctuation of the sentence around them
UrlTokens ==
    {"http://x.com", "http://x.com.", "http://x.com).", "HTTPS://x.com/a?!",
     "http://x.com/a,b;", "http://"}

UrlBodies ==
    {<<u>> : u \in UrlTokens}
        \cup {<<"see", "http://x.com).", "http://x.com)">>}

\* file bodies with one hexadecimal token, alone, next to an address, or
\* between bytes no pattern matches
HashBodies ==
    {<<h>> : h \in HexTokens}
        \cup {<<"8.8.8.8", "D41D8CD98F00B204E9800998ECF8427E">>,
              <<"#!~^", Rep("0aF9", 16), "~~">>,
              <<Rep("F", 32), Rep("f", 32), Rep("0", 32)>>}

\* the clock starts on the last tick of a second, after every initial mtime
FirstTick == 2 * TicksPerSec - 1

\* mtimes a file can have at the start: a whole second, and a second plus a
\* sub-second part
InitialMtimes == {0, 1}

\* "DateTime" column of ClickHouse: whole seconds; the sub-second part of a
\* time.Time written to it is dropped
DateTime(t) == t - (t % TicksPerSec)

\* db.GenerateFileID: hex(SHA-256(path)), an injective map of the path
GenerateFileID(filePath) ==
    CASE filePath = "/data/a.log" -> "6e1f0a"
      [] filePath = "/data/b.txt" -> "c49b27"
      [] filePath = "/data/c.TXT" -> "90d3b5"
      [] filePath = "/data/d.bin" -> "1fa7c8"
      [] filePath = "/data/e.md" -> "b2406e"
      [] filePath = "/data/z.log" -> "47ce19"
      [] OTHER -> "ffffff"

FileIDs == {GenerateFileID(p) : p \in Paths}
UnknownFileID == "000000"

NoObject == [present |-> FALSE]

\* every path of the data directories considered, in the lexical order of
\* filepath.WalkDir
TreeOrder ==
    <<"/data", "/data/a.log", "/data/b.txt", "/data/c.TXT", "/data/d.bin",
      "/data/e.md", "/data/old", "/data/z.log">>

\* filepath.WalkDir: the callback is entered once for every entry of the tree
WalkDir(fsys) == SelectSeq(TreeOrder, LAMBDA p : p \in DOMAIN fsys)

\* cfg.Worker.FileExtensions when FILE_EXTENSIONS is not set
DefaultExtensions == {".txt", ".log", ".json", ".csv", ".xml", ".html", ".md"}

-----------------------------------------------------------------------------
(* internal/extractor: Scan.  The regular expressions are modelled by the  *)
(* tokens of the vocabulary they match; canonicalisation and               *)
(* deduplication are computed as the code computes them.                   *)

HexDigits ==
    {"0", "1", "2", "3", "4", "5", "6", "7", "8", "9",
     "a", "b", "c", "d", "e", "f", "A", "B", "C", "D", "E", "F"}

\* [a-fA-F0-9]{n} between two word boundaries
IsHex(tok, n) ==
    Len(tok) = n /\ \A i \in 1..n : SubSeq(tok, i, i) \in HexDigits

Uppers == "ABCDEFGHIJKLMNOPQRSTUVWXYZ"
Lowers == "abcdefghijklmnopqrstuvwxyz"

\* the lower-case letter of every upper-case letter
LowerTable ==
    [c \in {SubSeq(Uppers, i, i) : i \in 1..Len(Uppers)} |->
        LET at == CHOOSE i \in 1..Len(Uppers) : SubSeq(Uppers, i, i) = c
        IN SubSeq(Lowers, at, at)]

LowerChar(c) == IF c \in DOMAIN LowerTable THEN LowerTable[c] ELSE c

\* strings.ToLower
ToLowerStr(s) ==
    LET low[i \in 0..Len(s)] ==
            IF i = 0 THEN "" ELSE low[i - 1] \o LowerChar(SubSeq(s, i, i))
    IN low[Len(s)]

\* strings.HasPrefix
HasPrefix(s, prefix) ==
    Len(s) >= Len(prefix) /\ SubSeq(s, 1, Len(prefix)) = prefix

\* filepath.Ext: the suffix that starts at the last dot of the last element of
\* the path, empty when that element has no dot
Ext(path) ==
    LET dots == {i \in 1..Len(path) :
                    /\ SubSeq(path, i, i) = "."
                    /\ \A j \in (i + 1)..Len(path) :
                          SubSeq(path, j, j) \notin {".", "/"}}
    IN IF dots = {} THEN "" ELSE SubSeq(path, Max(dots), Len(path))

\* crawl: the callback goes on to enqueue the entry d found at path: no
\* access error, not a directory, extension in the allow-list or the list
\* empty, and d.Info() succeeds
Eligible_anyext(path, d, FileExtensions) ==
    d.kind = "file"
Eligible(path, d, FileExtensions) ==
    LET extensions == {ToLowerStr(e) : e \in FileExtensions} IN
    /\ d.kind # "noaccess"
    /\ d.kind # "dir"
    /\ ~(extensions # {} /\ ToLowerStr(Ext(path)) \notin extensions)
    /\ d.kind # "nostat"

\* urlPattern, (?i)\bhttps?://[^\s<>"'`{}\[\]|\\^]+ : the length of the scheme a
\* token starts with, 0 when it starts with none
SchemeLen(tok) ==
    IF HasPrefix(ToLowerStr(tok), "https://") THEN 8
    ELSE IF HasPrefix(ToLowerStr(tok), "http://") THEN 7
    ELSE 0

\* the tokens of the vocabulary hold none of the bytes the class excludes, so
\* the match of urlPattern runs to the end of the token
IsURL(tok) == SchemeLen(tok) > 0 /\ Len(tok) > SchemeLen(tok)

\* the bytes of a domain label, and the dot between labels
DomainChars ==
    {SubSeq(Lowers, i, i) : i \in 1..Len(Lowers)}
        \cup {SubSeq(Uppers, i, i) : i \in 1..Len(Uppers)}
        \cup {"0", "1", "2", "3", "4", "5", "6", "7", "8", "9", "-", "."}

\* the longest prefix of s made of domain bytes
DomainRun(s) ==
    SubSeq(s, 1, Max({0} \cup {k \in 1..Len(s) :
                                \A i \in 1..k : SubSeq(s, i, i) \in DomainChars}))

\* strings.TrimRight(s, cutset): every trailing byte of the cutset is removed
TrimRight(s, cutset) ==
    SubSeq(s, 1, Max({0} \cup {k \in 1..Len(s) : SubSeq(s, k, k) \notin cutset}))

\* domainPattern inside a URL token: the host, which ends at a word boundary
\* file bodies that hold the same indicator more than once, in one spelling or
\* in several
DupBodies ==
    {<<"EVIL.com", "8.8.8.8", "evil.com", "8.8.8.8", "EVIL.com">>,
     <<"http://x.com.", "http://EVIL.com/a", "http://x.com", "evil.com">>,
     <<"D41D8CD98F00B204E9800998ECF8427E", "8.8.8.8",
       "d41d8cd98f00b204e9800998ecf8427e", "D41D8CD98F00B204E9800998ECF8427E">>}

\* after its top-level domain
HostOf(tok) ==
    TrimRight(DomainRun(SubSeq(tok, SchemeLen(tok) + 1, Len(tok))), {".", "-"})

HasHost(tok) ==
    /\ IsURL(tok)
    /\ Len(HostOf(tok)) > 4
    /\ ToLowerStr(SubSeq(HostOf(tok), Len(HostOf(tok)) - 3, Len(HostOf(tok)))) = ".com"

\* the pattern of one IOC type matches the whole token
PatternMatches(iocType, tok) ==
    CASE iocType = "ipv4" -> tok \in {"8.8.8.8"}
      [] iocType = "domain" -> tok \in {"EVIL.com", "evil.com"}
      [] iocType = "url" -> IsURL(tok)
      [] iocType = "md5" -> IsHex(tok, 32)
      [] iocType = "sha1" -> IsHex(tok, 40)
      [] iocType = "sha256" -> IsHex(tok, 64)
      [] OTHER -> FALSE

\* the matches of one pattern inside one token
FindIn(iocType, tok) ==
    IF PatternMatches(iocType, tok) THEN <<tok>>
    ELSE IF iocType = "domain" /\ HasHost(tok) THEN <<HostOf(tok)>>
    ELSE <<>>

\* regexp.FindAllString(content, -1) for the pattern of one IOC type
FindAllString(iocType, content) ==
    LET all[i \in 0..Len(content)] ==
            IF i = 0 THEN <<>> ELSE all[i - 1] \o FindIn(iocType, content[i])
    IN all[Len(content)]

toLower(items) == [i \in 1..Len(items) |-> ToLowerStr(items[i])]

deduplicate(items) ==
    LET result[i \in 0..Len(items)] ==
            IF i = 0 THEN <<>>
            ELSE IF items[i] \in Range(result[i - 1]) THEN result[i - 1]
            ELSE Append(result[i - 1], items[i])
    IN result[Len(items)]

\* net.ParseIP accepts every dotted quad the pattern matches
validateIPv4s(ips) == ips

hashFalsePositivePatterns == <<Rep("f", 32), Rep("0", 32)>>

HashTypes == {"md5", "sha1", "sha256"}

\* fp[:len(lower)] is out of range: the slice expression panics
SlicePanics(fp, lower) == Len(lower) > Len(fp)

\* strings.HasPrefix(lower, fp[:len(lower)]) || lower == fp[:len(lower)]
MatchesPattern(lower, fp) ==
    \/ HasPrefix(lower, SubSeq(fp, 1, Len(lower)))
    \/ lower = SubSeq(fp, 1, Len(lower))

\* the pattern loop over one hash reaches a pattern shorter than the hash
\* before a pattern matched
HashPanics(h) ==
    LET lower == ToLowerStr(h)
        pats == hashFalsePositivePatterns
    IN \E k \in 1..Len(pats) :
          /\ SlicePanics(pats[k], lower)
          /\ \A j \in 1..(k - 1) : ~MatchesPattern(lower, pats[j])

isFalsePositive(h) ==
    \E k \in 1..Len(hashFalsePositivePatterns) :
        MatchesPattern(ToLowerStr(h), hashFalsePositivePatterns[k])

\* filterHashFalsePositives: panics, or returns the hashes no pattern matches
filterPanics(hashes) == \E i \in 1..Len(hashes) : HashPanics(hashes[i])

filterHashFalsePositives(hashes) ==
    SelectSeq(hashes, LAMBDA h : ~isFalsePositive(h))

\* extractURLs: u = strings.TrimRight(u, ".,;:!?)") for every match
UrlCutset == {".", ",", ";", ":", "!", "?", ")"}

cleaned(matches) == [i \in 1..Len(matches) |-> TrimRight(matches[i], UrlCutset)]

extract_early(iocType, content) ==
    CASE iocType = "ipv4" -> validateIPv4s(deduplicate(FindAllString(iocType, content)))
      [] iocType = "domain" -> toLower(deduplicate(FindAllString(iocType, content)))
      [] iocType = "url" -> cleaned(deduplicate(FindAllString(iocType, content)))
      [] iocType \in HashTypes ->
            toLower(deduplicate(filterHashFalsePositives(FindAllString(iocType, content))))
      [] OTHER -> toLower(deduplicate(FindAllString(iocType, content)))
extract(iocType, content) ==
    CASE iocType = "ipv4" -> deduplicate(validateIPv4s(FindAllString(iocType, content)))
      [] iocType = "domain" -> deduplicate(toLower(FindAllString(iocType, content)))
      [] iocType = "url" -> deduplicate(cleaned(FindAllString(iocType, content)))
      [] iocType \in HashTypes ->
            deduplicate(toLower(filterHashFalsePositives(FindAllString(iocType, content))))
      [] OTHER -> deduplicate(toLower(FindAllString(iocType, content)))

\* Scan does not return: one of the hash extractors panics
ScanPanics(content) ==
    \E t \in HashTypes : filterPanics(FindAllString(t, content))

\* Scan: the map without the types that matched nothing
ScanTypes(content) ==
    {AllIOCTypes[i] : i \in {j \in 1..Len(AllIOCTypes) :
                                 extract(AllIOCTypes[j], content) # <<>>}}

Scan(content) == [t \in ScanTypes(content) |-> extract(t, content)]

CountIOCs(results) ==
    SumSeq([i \in 1..Len(AllIOCTypes) |->
              IF AllIOCTypes[i] \in DOMAIN results
              THEN Len(results[AllIOCTypes[i]]) ELSE 0])

\* FlattenIOCs: value, type and source set, every other field zero
RECURSIVE FlattenFrom(_, _, _)
FlattenFrom(k, results, sourceFileID) ==
    IF k > Len(AllIOCTypes) THEN <<>>
    ELSE LET t == AllIOCTypes[k]
             vals == IF t \in DOMAIN results THEN results[t] ELSE <<>>
         IN [i \in 1..Len(vals) |->
                [Value |-> vals[i], Type |-> t, SourceFileID |-> sourceFileID,
                 MalwareFamily |-> "", Confidence |-> 0,
                 FirstSeen |-> 0, LastSeen |-> 0, HitCount |-> 0]]
            \o FlattenFrom(k + 1, results, sourceFileID)

FlattenIOCs(results, sourceFileID) == FlattenFrom(1, results, sourceFileID)

ScanValues(results) == UNION {Range(results[t]) : t \in DOMAIN results}

-----------------------------------------------------------------------------
(* internal/db: ClickHouse client *)

NoRow == [file_id |-> ""]

\* the rows "WHERE file_id = ? ORDER BY updated_at DESC LIMIT 1" can return:
\* any row of the file with the greatest updated_at
LatestRegistryRows(fileID) ==
    LET mine == {i \in 1..Len(file_registry) : file_registry[i].file_id = fileID}
        top == {i \in mine : \A j \in mine :
                    file_registry[j].updated_at <= file_registry[i].updated_at}
    IN {file_registry[i] : i \in top}

\* CheckFileChanged on the row the query returned (NoRow: Scan failed)
CheckFileChanged(row, lastModified) ==
    IF row = NoRow THEN TRUE ELSE row.last_modified # lastModified

\* UpsertFileMetadata: one more row, updated_at = time.Now()
UpsertFileMetadata_only(registry, meta, now) ==
    Append(<<>>,
           [file_id |-> meta.FileID, file_path |-> meta.FilePath,
            file_size |-> meta.FileSize,
            last_modified |-> DateTime(meta.LastModified),
            scan_status |-> meta.ScanStatus, ioc_count |-> meta.IOCCount,
            minio_key |-> meta.MinIOKey, error_message |-> meta.ErrorMessage,
            processed_at |-> DateTime(meta.ProcessedAt),
            updated_at |-> DateTime(now)])
UpsertFileMetadata(registry, meta, now) ==
    Append(registry,
           [file_id |-> meta.FileID, file_path |-> meta.FilePath,
            file_size |-> meta.FileSize,
            last_modified |-> DateTime(meta.LastModified),
            scan_status |-> meta.ScanStatus, ioc_count |-> meta.IOCCount,
            minio_key |-> meta.MinIOKey, error_message |-> meta.ErrorMessage,
            processed_at |-> DateTime(meta.ProcessedAt),
            updated_at |-> DateTime(now)])

\* BatchInsertIOCs: the whole batch, one row per element
BatchInsertIOCs(store, iocs) ==
    store \o [i \in 1..Len(iocs) |->
                [ioc_value |-> iocs[i].Value, ioc_type |-> iocs[i].Type,
                 source_file_id |-> iocs[i].SourceFileID,
                 malware_family |-> iocs[i].MalwareFamily,
                 confidence |-> iocs[i].Confidence,
                 first_seen |-> DateTime(iocs[i].FirstSeen),
                 last_seen |-> DateTime(iocs[i].LastSeen),
                 hit_count |-> iocs[i].HitCount]]

\* position of a source in the order ClickHouse breaks ties of last_seen with
TieRank(tie, id) == CHOOSE k \in 1..Len(tie) : tie[k] = id

TieOrders == {t \in [1..Cardinality(FileIDs) -> FileIDs] : Range(t) = FileIDs}

\* QueryIOCs: the rows WHERE ioc_value IN (iocValues) ORDER BY last_seen DESC;
\* rows of equal last_seen come in an order the store chooses (tie)
QueryIOCs(iocValues, tie) ==
    LET wanted == Range(iocValues)
        idx == SelectSeq([i \in 1..Len(ioc_store) |-> i],
                         LAMBDA i : ioc_store[i].ioc_value \in wanted)
        Before(i, j) ==
            \/ ioc_store[i].last_seen > ioc_store[j].last_seen
            \/ /\ ioc_store[i].last_seen = ioc_store[j].last_seen
               /\ \/ TieRank(tie, ioc_store[i].source_file_id)
                       < TieRank(tie, ioc_store[j].source_file_id)
                  \/ /\ ioc_store[i].source_file_id = ioc_store[j].source_file_id
                     /\ i < j
        sorted == SortSeq(idx, Before)
    IN [k \in 1..Len(sorted) |->
          [Value |-> ioc_store[sorted[k]].ioc_value,
           Type |-> ioc_store[sorted[k]].ioc_type,
           SourceFileID |-> ioc_store[sorted[k]].source_file_id,
           MalwareFamily |-> ioc_store[sorted[k]].malware_family,
           Confidence |-> ioc_store[sorted[k]].confidence,
           FirstSeen |-> ioc_store[sorted[k]].first_seen,
           LastSeen |-> ioc_store[sorted[k]].last_seen,
           HitCount |-> ioc_store[sorted[k]].hit_count]]

-----------------------------------------------------------------------------
(* internal/db: Redis Bloom filter and MinIO *)

\* BF.MADD
BFMAdd_lost(filter, items) == filter
BFMAdd(filter, items) == filter \cup Range(items)

\* BF.MEXISTS, positional: an added item is always reported, an item never
\* added is reported when it is one of the filter's false positives (fp)
BFMExists(filter, fp, items) ==
    [i \in 1..Len(items) |-> items[i] \in filter \/ items[i] \in fp]

\* PutObject: overwrite wins
UploadBytes_empty(bkt, objectName, content, contentType) ==
    [bkt EXCEPT ![objectName] =
        [present |-> TRUE, bytes |-> <<>>, contentType |-> contentType]]
UploadBytes(bkt, objectName, content, contentType) ==
    [bkt EXCEPT ![objectName] =
        [present |-> TRUE, bytes |-> content, contentType |-> contentType]]

\* GetContentType: by the extension of the path
GetContentType(filePath) ==
    CASE filePath = "/data/a.log" -> "text/plain"
      [] filePath = "/data/b.txt" -> "text/plain"
      [] OTHER -> "application/octet-stream"

-----------------------------------------------------------------------------
(* cmd/ingestor *)

\* the worker goroutines of the ingestor: cfg.Worker.Count of them
Workers == DOMAIN wk

NoJob == [FilePath |-> ""]

IdleWorker ==
    [pc |-> "idle", job |-> NoJob, FileID |-> "", Status |-> "",
     IOCCount |-> 0, IOCs |-> <<>>, content |-> <<>>,
     lost |-> {}, insertOk |-> TRUE, uploadOk |-> TRUE, ops |-> <<>>]

\* processFile after Scan: files with IOCs go to the filter and the index,
\* files without go to the blob store
\* processFile on an unchanged file: return result, nothing else
AfterSkip_upsert == "upsert"
AfterSkip == "send"

\* processFile on a file it cannot read: return result; the worker goes on
AfterReadFailure_returned == "returned"
AfterReadFailure == "send"

AfterScan_insert(n) == IF n > 0 THEN "insert" ELSE "upload"
AfterScan(n) == IF n > 0 THEN "bloom" ELSE "upload"

ZeroStats ==
    [FilesProcessed |-> 0, FilesSkipped |-> 0, FilesFailed |-> 0,
     IOCsExtracted |-> 0, BytesProcessed |-> 0]

NoResp == [kind |-> "none"]

\* hashAPIKey, hex of the SHA-256 of the key: an injective table over the keys
\* a request can present
ApiKeys == {"secret", "guess"}

hashAPIKey(apiKey) ==
    CASE apiKey = "secret" -> "2bb80d"
      [] apiKey = "guess" -> "ed1d3a"
      [] OTHER -> "e3b0c4"

RateLimitKey(apiKeyHash) == "rate_limit:" \o apiKeyHash

RateLimitKeys == {RateLimitKey(hashAPIKey(k)) : k \in ApiKeys}

\* a Redis key that does not exist: GET yields nil, INCR starts from 0
NoCounter == [n |-> 0, ttl |-> 0]

\* whether a Redis call failed since the counter key was created and, as long
\* as none did, the requests admitted since then (history)
NoWindow == [admitted |-> 0, outage |-> FALSE]

NoGateResp == [kind |-> "none"]

\* the middleware of a server with key APIKey; paths, headers, burst and
\* faulty describe the clients and the Redis failures of the environment
Gate(APIKey, paths, headers, burst, faulty) ==
    [APIKey |-> APIKey, paths |-> paths, headers |-> headers,
     burst |-> burst, faulty |-> faulty,
     counter |-> [k \in RateLimitKeys |-> NoCounter],
     window |-> [k \in RateLimitKeys |-> NoWindow],
     resp |-> NoGateResp]

\* no client sends a request through the middleware
NoGate == Gate("", {}, {}, 0, FALSE)

\* Run: the collector, the workers and the batch processor are started and
\* the directory is being walked; no channel is closed
Running == [pc |-> "crawl", collector |-> "running", batch |-> "running"]

\* no WalkDir in progress; late counts the jobs enqueued after the signal
\* sent lists the jobs enqueued (history)
NoWalk ==
    [pc |-> "done", late |-> 0, sent |-> <<>>,
     FileExtensions |-> DefaultExtensions]

\* channel capacity of jobs and results: cfg.Worker.Count * 2
ChanCap_more == 2 * Cardinality(Workers) + 1
ChanCap == 2 * Cardinality(Workers)

\* i.ctx.Done() is closed: i.cancel is called by Close only, which main
\* defers until Run has returned
ictxDone_sig == sig
ictxDone == ~run.active

\* the ProcessResult a worker hands to the results channel
Result(w) ==
    [FilePath |-> wk[w].job.FilePath, FileID |-> wk[w].FileID,
     Status |-> wk[w].Status, IOCCount |-> wk[w].IOCCount]

Quiet == resp = NoResp

CanFail == faults < MaxFaults

\* one completed processFile call
Done(w, outcome, upsertOk) ==
    [run |-> run.n, path |-> wk[w].job.FilePath, file_id |-> wk[w].FileID,
     outcome |-> outcome, status |-> wk[w].Status, content |-> wk[w].content,
     iocs |-> wk[w].IOCs, lost |-> wk[w].lost, insertOk |-> wk[w].insertOk,
     uploadOk |-> wk[w].uploadOk, upsertOk |-> upsertOk]

Init ==
    /\ fs \in [Paths -> [content : {BodyAddrDomain, BodyAddr, BodyNone},
                         mtime : InitialMtimes, kind : {"file"}]]
    /\ fs["/data/a.log"].content = BodyAddrDomain
    /\ fs["/data/b.txt"].content # BodyAddrDomain
    /\ fs["/data/b.txt"].mtime = 0
    /\ clock = FirstTick
    /\ file_registry = <<>>
    /\ ioc_store = <<>>
    /\ bloom = {}
    /\ bucket = [id \in FileIDs |-> NoObject]
    /\ run = [n |-> 0, active |-> FALSE]
    /\ walk = <<>>
    /\ jobs = <<>>
    /\ wk = [w \in 1..NumWorkers |-> IdleWorker]
    /\ stats = ZeroStats
    /\ hist = {}
    /\ faults = 0
    /\ resp = NoResp
    /\ sig = FALSE
    /\ walker = NoWalk
    /\ iresults = <<>>
    /\ collected = <<>>
    /\ gate = NoGate
    /\ shut = Running

\* the wall clock advances
Tick ==
    /\ Quiet
    /\ clock < FirstTick + MaxTicks
    /\ clock' = clock + 1
    /\ UNCHANGED <<fs, file_registry, ioc_store, bloom, bucket, run, walk, jobs,
                   wk, stats, hist, faults, resp>>
    /\ UNCHANGED pipe
    /\ UNCHANGED <<gate, shut>>

\* main / NewIngestor / Run: a new ingestor process, fresh channels and stats
StartRun ==
    /\ Quiet
    /\ ~run.active
    /\ run.n < MaxRuns
    /\ run' = [n |-> run.n + 1, active |-> TRUE]
    /\ walk' = WalkDir(fs)
    /\ jobs' = <<>>
    /\ wk' = [w \in Workers |-> IdleWorker]
    /\ stats' = ZeroStats
    /\ sig' = FALSE
    /\ walker' = [walker EXCEPT !.pc = "check", !.late = 0, !.sent = <<>>]
    /\ iresults' = <<>>
    /\ collected' = <<>>
    /\ UNCHANGED <<fs, clock, file_registry, ioc_store, bloom, bucket, hist,
                   faults, resp>>
    /\ shut' = Running
    /\ UNCHANGED gate

\* main: the signal handler cancels the context Run was given
cancel ==
    /\ Quiet
    /\ run.active
    /\ ~sig
    /\ sig' = TRUE
    /\ UNCHANGED <<fs, clock, file_registry, ioc_store, bloom, bucket, run, walk,
                   jobs, wk, stats, hist, faults, resp, walker, iresults,
                   collected>>
    /\ UNCHANGED <<gate, shut>>

\* crawl: the WalkDir callback is entered for the next entry and polls
\* ctx.Done(); a cancelled context ends the walk, an entry that is not
\* eligible is passed over
crawl ==
    /\ Quiet
    /\ run.active
    /\ walker.pc = "check"
    /\ walk # <<>>
    /\ IF sig
       THEN /\ walker' = [walker EXCEPT !.pc = "done"]
            /\ UNCHANGED walk
       ELSE IF Eligible(Head(walk), fs[Head(walk)], walker.FileExtensions)
       THEN /\ walker' = [walker EXCEPT !.pc = "send"]
            /\ UNCHANGED walk
       ELSE /\ walker' = [walker EXCEPT
                            !.pc = IF Tail(walk) = <<>> THEN "done" ELSE "check"]
            /\ walk' = Tail(walk)
    /\ UNCHANGED <<fs, clock, file_registry, ioc_store, bloom, bucket, run,
                   jobs, wk, stats, hist, faults, resp, sig, iresults, collected>>
    /\ UNCHANGED <<gate, shut>>

\* crawl: select { case i.jobs <- job: / case <-ctx.Done(): return ctx.Err() };
\* when both can proceed either is chosen.  After the last file WalkDir
\* returns.
crawl_send ==
    /\ Quiet
    /\ run.active
    /\ walker.pc = "send"
    /\ \/ /\ Len(jobs) < ChanCap
          /\ jobs' = Append(jobs, [FilePath |-> Head(walk),
                                   FileSize |-> Len(fs[Head(walk)].content),
                                   LastModified |-> fs[Head(walk)].mtime])
          /\ walk' = Tail(walk)
          /\ walker' = [walker EXCEPT
                          !.pc = IF Tail(walk) = <<>> THEN "done" ELSE "check",
                          !.late = @ + (IF sig THEN 1 ELSE 0),
                          !.sent = Append(@, Head(walk))]
       \/ /\ sig
          /\ walker' = [walker EXCEPT !.pc = "done"]
          /\ UNCHANGED <<jobs, walk>>
    /\ UNCHANGED <<fs, clock, file_registry, ioc_store, bloom, bucket, run, wk,
                   stats, hist, faults, resp, sig, iresults, collected>>
    /\ UNCHANGED <<gate, shut>>

\* "for job := range i.jobs": the received job leaves the channel
Receive_peek(q) == q
Receive(q) == Tail(q)

\* worker: for job := range i.jobs
worker(w) ==
    /\ Quiet
    /\ run.active
    /\ wk[w].pc = "idle"
    /\ jobs # <<>>
    /\ wk' = [wk EXCEPT ![w] =
                [IdleWorker EXCEPT !.pc = "changed", !.job = Head(jobs),
                                   !.FileID = GenerateFileID(Head(jobs).FilePath)]]
    /\ jobs' = Receive(jobs)
    /\ UNCHANGED <<fs, clock, file_registry, ioc_store, bloom, bucket, run, walk,
                   stats, hist, faults, resp>>
    /\ UNCHANGED pipe
    /\ UNCHANGED <<gate, shut>>

\* processFile, from the change detection to the end of Scan
processFile_changed(w) ==
    /\ Quiet
    /\ wk[w].pc = "changed"
    /\ \E row \in LatestRegistryRows(wk[w].FileID) \cup {NoRow} :
       \E readOk \in BOOLEAN :
       \E content \in {fs[wk[w].job.FilePath].content} :
       \E iocs \in {IF ScanPanics(content) THEN <<>> ELSE Scan(content)} :
        LET queryFailed == row = NoRow /\ LatestRegistryRows(wk[w].FileID) # {}
            changed == CheckFileChanged(row, wk[w].job.LastModified)
            n == CountIOCs(iocs)
            nf == (IF queryFailed THEN 1 ELSE 0)
                    + (IF changed /\ ~readOk THEN 1 ELSE 0)
        IN /\ row = NoRow \/ LatestRegistryRows(wk[w].FileID) # {}
           /\ ~changed => readOk
           /\ faults + nf <= MaxFaults
           /\ faults' = faults + nf
           /\ IF changed /\ readOk /\ ScanPanics(content)
              THEN /\ run' = [run EXCEPT !.active = FALSE]
                   /\ jobs' = <<>>
                   /\ walker' = [walker EXCEPT !.pc = "done"]
                   /\ iresults' = <<>>
              ELSE UNCHANGED <<run, jobs, walker, iresults>>
           /\ IF ~changed
              THEN /\ stats' = [stats EXCEPT !.FilesSkipped = @ + 1]
                   /\ hist' = hist \cup
                        {[Done(w, "skipped", FALSE) EXCEPT !.status = ScanStatusClean]}
                   /\ wk' = [wk EXCEPT ![w] =
                               [@ EXCEPT !.Status = ScanStatusClean, !.pc = AfterSkip]]
              ELSE IF ~readOk
              THEN /\ stats' = [stats EXCEPT !.FilesFailed = @ + 1]
                   /\ hist' = hist \cup
                        {[Done(w, "unread", FALSE) EXCEPT !.status = ScanStatusFailed]}
                   /\ wk' = [wk EXCEPT ![w] =
                               [@ EXCEPT !.Status = ScanStatusFailed,
                                         !.pc = AfterReadFailure]]
              ELSE IF ScanPanics(content)
              THEN \* the panic is recovered nowhere: the process exits with
                   \* every goroutine, queue and counter of the run
                   /\ stats' = [stats EXCEPT !.BytesProcessed = @ + Len(content)]
                   /\ hist' = hist \cup
                        {[Done(w, "panicked", FALSE) EXCEPT !.content = content]}
                   /\ wk' = [v \in Workers |-> IdleWorker]
              ELSE /\ stats' = [stats EXCEPT
                                  !.BytesProcessed = @ + Len(content),
                                  !.IOCsExtracted = @ + n]
                   /\ hist' = hist
                   /\ wk' = [wk EXCEPT ![w] =
                               [@ EXCEPT !.content = content, !.IOCs = iocs,
                                         !.IOCCount = n,
                                         !.Status = IF n > 0 THEN ScanStatusInfected
                                                    ELSE ScanStatusMisc,
                                         !.pc = AfterScan(n)]]
    /\ UNCHANGED <<fs, clock, file_registry, ioc_store, bloom, bucket, walk, resp,
                   sig, collected>>
    /\ UNCHANGED <<gate, shut>>

\* processFile: BFMAdd of every type's values; a failed add is only logged
processFile_bloom(w) ==
    /\ Quiet
    /\ wk[w].pc = "bloom"
    /\ \E failed \in SUBSET (DOMAIN wk[w].IOCs) :
        LET added == UNION {Range(wk[w].IOCs[t]) : t \in (DOMAIN wk[w].IOCs) \ failed}
            addedSeq == SelectSeq(
                [i \in 1..Len(FlattenIOCs(wk[w].IOCs, wk[w].FileID)) |->
                    FlattenIOCs(wk[w].IOCs, wk[w].FileID)[i].Value],
                LAMBDA v : v \in added)
        IN /\ faults + Cardinality(failed) <= MaxFaults
           /\ faults' = faults + Cardinality(failed)
           /\ bloom' = BFMAdd(bloom, addedSeq)
           /\ wk' = [wk EXCEPT ![w] = [@ EXCEPT !.lost = failed, !.pc = "insert",
                                                   !.ops = Append(@, "bloom")]]
    /\ UNCHANGED <<fs, clock, file_registry, ioc_store, bucket, run, walk, jobs,
                   stats, hist, resp>>
    /\ UNCHANGED pipe
    /\ UNCHANGED <<gate, shut>>

\* the batch processFile stamps and hands to BatchInsertIOCs
StampedIOCs(w) ==
    LET iocList == FlattenIOCs(wk[w].IOCs, wk[w].FileID)
    IN [i \in 1..Len(iocList) |->
          [iocList[i] EXCEPT !.FirstSeen = clock, !.LastSeen = clock,
                             !.Confidence = 50, !.MalwareFamily = "Unknown"]]

\* processFile: BatchInsertIOCs; a failed insert is only logged
processFile_insert(w) ==
    /\ Quiet
    /\ wk[w].pc = "insert"
    /\ \E ok \in BOOLEAN :
        /\ ~ok => CanFail
        /\ faults' = IF ok THEN faults ELSE faults + 1
        /\ ioc_store' = IF ok THEN BatchInsertIOCs(ioc_store, StampedIOCs(w))
                        ELSE ioc_store
        /\ wk' = [wk EXCEPT ![w] = [@ EXCEPT !.insertOk = ok, !.pc = "upsert",
                                            !.ops = Append(@, "insert")]]
    /\ UNCHANGED <<fs, clock, file_registry, bloom, bucket, run, walk, jobs,
                   stats, hist, resp>>
    /\ UNCHANGED pipe
    /\ UNCHANGED <<gate, shut>>

\* processFile: UploadBytes under key = file_id; a failed upload is only logged
processFile_upload(w) ==
    /\ Quiet
    /\ wk[w].pc = "upload"
    /\ \E ok \in BOOLEAN :
        /\ ~ok => CanFail
        /\ faults' = IF ok THEN faults ELSE faults + 1
        /\ bucket' = IF ok
                     THEN UploadBytes(bucket, wk[w].FileID, wk[w].content,
                                      GetContentType(wk[w].job.FilePath))
                     ELSE bucket
        /\ wk' = [wk EXCEPT ![w] = [@ EXCEPT !.uploadOk = ok, !.pc = "upsert",
                                            !.ops = Append(@, "upload")]]
    /\ UNCHANGED <<fs, clock, file_registry, ioc_store, bloom, run, walk, jobs,
                   stats, hist, resp>>
    /\ UNCHANGED pipe
    /\ UNCHANGED <<gate, shut>>

\* the FileMetadata processFile builds for the registry
FileMeta_nokey(w) ==
    [FileID |-> wk[w].FileID, FilePath |-> wk[w].job.FilePath,
     FileSize |-> wk[w].job.FileSize, LastModified |-> wk[w].job.LastModified,
     ScanStatus |-> wk[w].Status, IOCCount |-> wk[w].IOCCount,
     ProcessedAt |-> clock, MinIOKey |-> "", ErrorMessage |-> ""]
FileMeta(w) ==
    [FileID |-> wk[w].FileID, FilePath |-> wk[w].job.FilePath,
     FileSize |-> wk[w].job.FileSize, LastModified |-> wk[w].job.LastModified,
     ScanStatus |-> wk[w].Status, IOCCount |-> wk[w].IOCCount,
     ProcessedAt |-> clock,
     MinIOKey |-> IF wk[w].Status = ScanStatusMisc THEN wk[w].FileID ELSE "",
     ErrorMessage |-> ""]

\* processFile: UpsertFileMetadata, then the processed counter
processFile_upsert(w) ==
    /\ Quiet
    /\ wk[w].pc = "upsert"
    /\ \E ok \in BOOLEAN :
        /\ ~ok => CanFail
        /\ faults' = IF ok THEN faults ELSE faults + 1
        /\ file_registry' = IF ok
                            THEN UpsertFileMetadata(file_registry, FileMeta(w), clock)
                            ELSE file_registry
        /\ hist' = hist \cup {Done(w, "processed", ok)}
    /\ stats' = [stats EXCEPT !.FilesProcessed = @ + 1]
    /\ wk' = [wk EXCEPT ![w] = [@ EXCEPT !.pc = "send", !.ops = Append(@, "upsert")]]
    /\ UNCHANGED <<fs, clock, ioc_store, bloom, bucket, run, walk, jobs, resp>>
    /\ UNCHANGED pipe
    /\ UNCHANGED <<gate, shut>>

\* worker: select { case i.results <- result: / case <-i.ctx.Done(): return }
worker_send(w) ==
    /\ Quiet
    /\ wk[w].pc = "send"
    /\ \/ /\ Len(iresults) < ChanCap
          /\ iresults' = Append(iresults, Result(w))
          /\ wk' = [wk EXCEPT ![w] = IdleWorker]
       \/ /\ ictxDone
          /\ wk' = [wk EXCEPT ![w] = [IdleWorker EXCEPT !.pc = "returned"]]
          /\ UNCHANGED iresults
    /\ UNCHANGED <<fs, clock, file_registry, ioc_store, bloom, bucket, run, walk,
                   jobs, stats, hist, faults, resp, sig, walker, collected>>
    /\ UNCHANGED <<gate, shut>>

\* resultCollector: case result, ok := <-i.results
resultCollector ==
    /\ Quiet
    /\ iresults # <<>>
    /\ collected' = Append(collected, Head(iresults))
    /\ iresults' = Tail(iresults)
    /\ UNCHANGED <<fs, clock, file_registry, ioc_store, bloom, bucket, run, walk,
                   jobs, wk, stats, hist, faults, resp, sig, walker>>
    /\ UNCHANGED <<gate, shut>>

\* Run returns: crawl has returned and the jobs channel is closed; wg.Wait():
\* every worker has left its loop (the closed channel is drained, or it
\* returned on i.ctx.Done()); the results channel is closed and
\* collectorWg.Wait(): the collector has received what was buffered
EndRun ==
    /\ Quiet
    /\ run.active
    /\ walker.pc = "done"
    /\ \A w \in Workers : \/ wk[w].pc = "idle" /\ jobs = <<>>
                          \/ wk[w].pc = "returned"
    /\ iresults = <<>>
    /\ run' = [run EXCEPT !.active = FALSE]
    /\ UNCHANGED <<fs, clock, file_registry, ioc_store, bloom, bucket, walk, jobs,
                   wk, stats, hist, faults, resp>>
    /\ UNCHANGED pipe
    /\ UNCHANGED <<gate, shut>>

\* the file is written again on disk: its modification time advances by one
\* second (never beyond the wall clock)
Touch ==
    /\ Quiet
    /\ \E p \in Paths :
        /\ fs[p].mtime < TicksPerSec
        /\ fs[p].mtime + TicksPerSec <= clock
        /\ fs' = [fs EXCEPT ![p].mtime = @ + TicksPerSec]
    /\ UNCHANGED <<clock, file_registry, ioc_store, bloom, bucket, run, walk,
                   jobs, wk, stats, hist, faults, resp>>
    /\ UNCHANGED pipe
    /\ UNCHANGED <<gate, shut>>

Ingest ==
    \/ StartRun
    \/ crawl
    \/ crawl_send
    \/ \E w \in Workers : worker(w)
    \/ \E w \in Workers : processFile_changed(w)
    \/ \E w \in Workers : processFile_bloom(w)
    \/ \E w \in Workers : processFile_insert(w)
    \/ \E w \in Workers : processFile_upload(w)
    \/ \E w \in Workers : processFile_upsert(w)
    \/ \E w \in Workers : worker_send(w)
    \/ resultCollector
    \/ EndRun

-----------------------------------------------------------------------------
(* cmd/api *)

StatusOK == 200
StatusBadRequest == 400
StatusNotFound == 404
StatusInternalServerError == 500

\* values a client asks about
Values == {"8.8.8.8", "evil.com", "nope.invalid"}

RECURSIVE SeqsUpTo(_)
SeqsUpTo(n) ==
    IF n = 0 THEN {<<>>}
    ELSE LET shorter == SeqsUpTo(n - 1)
         IN shorter \cup {Append(q, v) : q \in {r \in shorter : Len(r) = n - 1},
                                         v \in Values}

\* request bodies: one that does not parse, and {"iocs": [...]}
BadBody == [parses |-> FALSE, IOCs |-> <<>>]
Body(iocs) == [parses |-> TRUE, IOCs |-> iocs]

SmallBodies == {BadBody} \cup {Body(q) : q \in SeqsUpTo(MaxReqLen)}

\* len(req.IOCs) > 1000
TooMany_ge(iocs) == Len(iocs) >= MaxIOCsPerRequest
TooMany(iocs) == Len(iocs) > MaxIOCsPerRequest

\* the verdicts checkHandler assumes when BFMExists fails
AssumeAll_absent(iocs) == [i \in 1..Len(iocs) |-> FALSE]
AssumeAll(iocs) == [i \in 1..Len(iocs) |-> TRUE]

\* potentialHits: the inputs at the positions the filter reports, in order
PotentialHits_all(iocs, bloomResults) == iocs
PotentialHits(iocs, bloomResults) ==
    LET marked == SelectSeq([i \in 1..Len(iocs) |-> [ioc |-> iocs[i], hit |-> bloomResults[i]]],
                            LAMBDA m : m.hit)
    IN [k \in 1..Len(marked) |-> marked[k].ioc]

\* foundMap: for _, ioc := range foundIOCs { foundMap[ioc.Value] = ioc }
FoundMap(foundIOCs) ==
    [v \in {foundIOCs[k].Value : k \in 1..Len(foundIOCs)} |->
        foundIOCs[Max({k \in 1..Len(foundIOCs) : foundIOCs[k].Value = v})]]

\* time.Time.Format(time.RFC3339) of a DateTime column
FormatRFC3339(t) == [rfc3339 |-> t]

NotFoundResult_found(ioc) ==
    [IOC |-> ioc, Found |-> TRUE, Type |-> "", SourceFileID |-> "",
     MalwareFamily |-> "", Confidence |-> 0, FirstSeen |-> ""]
NotFoundResult(ioc) ==
    [IOC |-> ioc, Found |-> FALSE, Type |-> "", SourceFileID |-> "",
     MalwareFamily |-> "", Confidence |-> 0, FirstSeen |-> ""]

\* results: one entry per input position
Results_hits(iocs, foundMap) ==
    LET hits == SelectSeq(iocs, LAMBDA v : v \in DOMAIN foundMap)
    IN [i \in 1..Len(hits) |->
          [IOC |-> hits[i], Found |-> TRUE, Type |-> foundMap[hits[i]].Type,
           SourceFileID |-> foundMap[hits[i]].SourceFileID,
           MalwareFamily |-> foundMap[hits[i]].MalwareFamily,
           Confidence |-> foundMap[hits[i]].Confidence,
           FirstSeen |-> FormatRFC3339(foundMap[hits[i]].FirstSeen)]]
Results(iocs, foundMap) ==
    [i \in 1..Len(iocs) |->
        IF iocs[i] \in DOMAIN foundMap
        THEN [IOC |-> iocs[i], Found |-> TRUE, Type |-> foundMap[iocs[i]].Type,
              SourceFileID |-> foundMap[iocs[i]].SourceFileID,
              MalwareFamily |-> foundMap[iocs[i]].MalwareFamily,
              Confidence |-> foundMap[iocs[i]].Confidence,
              FirstSeen |-> FormatRFC3339(foundMap[iocs[i]].FirstSeen)]
        ELSE NotFoundResult(iocs[i])]

FoundCount_len(results) == Len(results)
FoundCount(results) == Len(SelectSeq(results, LAMBDA r : r.Found))

ErrorResponse(route, req, status, error, details) ==
    [kind |-> route, req |-> req, status |-> status, error |-> error,
     details |-> details, bloomAsked |-> FALSE, bloomFailed |-> FALSE,
     queried |-> FALSE, hits |-> <<>>, queryFailed |-> FALSE,
     meta |-> NoRow, registryFailed |-> FALSE, blobRead |-> FALSE,
     blobFailed |-> FALSE]

\* checkHandler: POST /check
checkHandler(body) ==
    /\ Quiet
    /\ IF ~body.parses
       THEN resp' = ErrorResponse("check", body, StatusBadRequest,
                                  "Invalid request body", "")
       ELSE IF Len(body.IOCs) = 0
       THEN resp' = ErrorResponse("check", body, StatusBadRequest,
                                  "No IOCs provided", "")
       ELSE IF TooMany(body.IOCs)
       THEN resp' = ErrorResponse("check", body, StatusBadRequest,
                                  "Too many IOCs", "Maximum 1000 IOCs per request")
       ELSE \E bloomOk \in BOOLEAN, queryOk \in BOOLEAN :
            \E fp \in SUBSET (Range(body.IOCs) \ bloom) :
            \E tie \in TieOrders :
              LET bloomResults == IF bloomOk THEN BFMExists(bloom, fp, body.IOCs)
                                  ELSE AssumeAll(body.IOCs)
                  potentialHits == PotentialHits(body.IOCs, bloomResults)
                  asked == Len(potentialHits) > 0
                  foundIOCs == IF asked /\ queryOk THEN QueryIOCs(potentialHits, tie)
                               ELSE <<>>
                  results == Results(body.IOCs, FoundMap(foundIOCs))
              IN /\ ~bloomOk => fp = {}
                 /\ ~asked => queryOk
                 /\ resp' = [kind |-> "check", req |-> body, status |-> StatusOK,
                             results |-> results, total |-> Len(body.IOCs),
                             found |-> FoundCount(results),
                             not_found |-> Len(body.IOCs) - FoundCount(results),
                             bloomAsked |-> TRUE, bloomFailed |-> ~bloomOk,
                             bloomResults |-> bloomResults,
                             queried |-> asked, hits |-> potentialHits,
                             queryFailed |-> ~queryOk, rows |-> foundIOCs]
    /\ UNCHANGED <<fs, clock, file_registry, ioc_store, bloom, bucket, run, walk,
                   jobs, wk, stats, hist, faults>>
    /\ UNCHANGED pipe
    /\ UNCHANGED <<gate, shut>>

\* the object name contextHandler asks MinIO for
ObjectKey(meta, fileID) == IF meta.minio_key = "" THEN fileID ELSE meta.minio_key

\* contextHandler: GET /context/:file_id
contextHandler(fileID) ==
    /\ Quiet
    /\ IF fileID = ""
       THEN resp' = ErrorResponse("context", fileID, StatusBadRequest,
                                  "Missing file_id", "")
       ELSE \E meta \in LatestRegistryRows(fileID) \cup {NoRow} :
            \E getOk \in BOOLEAN, statOk \in BOOLEAN :
              LET registryFailed == meta = NoRow /\ LatestRegistryRows(fileID) # {}
                  minioKey == ObjectKey(meta, fileID)
                  obj == IF minioKey \in DOMAIN bucket THEN bucket[minioKey]
                         ELSE NoObject
              IN /\ meta = NoRow => getOk /\ statOk
                 /\ ~getOk => statOk
                 /\ resp' =
                      IF meta = NoRow
                      THEN [ErrorResponse("context", fileID, StatusNotFound,
                                          "File not found", fileID)
                              EXCEPT !.registryFailed = registryFailed]
                      ELSE IF ~getOk
                      THEN [ErrorResponse("context", fileID, StatusNotFound,
                                "File content not available",
                                "File may not have been stored in object storage")
                              EXCEPT !.meta = meta, !.blobRead = TRUE,
                                     !.blobFailed = TRUE]
                      ELSE IF ~statOk \/ ~obj.present
                      THEN [ErrorResponse("context", fileID, StatusInternalServerError,
                                          "Failed to get file info", "")
                              EXCEPT !.meta = meta, !.blobRead = TRUE,
                                     !.blobFailed = ~statOk]
                      ELSE [kind |-> "context", req |-> fileID, status |-> StatusOK,
                            body |-> obj.bytes, ContentType |-> obj.contentType,
                            ContentLength |-> Len(obj.bytes),
                            XFileID |-> fileID, XOriginalPath |-> meta.file_path,
                            meta |-> meta, key |-> minioKey,
                            registryFailed |-> FALSE, blobRead |-> TRUE,
                            blobFailed |-> FALSE]
    /\ UNCHANGED <<fs, clock, file_registry, ioc_store, bloom, bucket, run, walk,
                   jobs, wk, stats, hist, faults>>
    /\ UNCHANGED pipe
    /\ UNCHANGED <<gate, shut>>

\* the response leaves the server
Deliver ==
    /\ ~Quiet
    /\ resp' = NoResp
    /\ UNCHANGED <<fs, clock, file_registry, ioc_store, bloom, bucket, run, walk,
                   jobs, wk, stats, hist, faults>>
    /\ UNCHANGED pipe
    /\ UNCHANGED <<gate, shut>>

ContextIDs == FileIDs \cup {UnknownFileID, ""}

\* a request reads the stores only: the states in which the walker stands
\* between its poll and its send, or a result is in flight to the collector,
\* differ from a state without them in nothing a handler reads
Settled == walker.pc # "send" /\ iresults = <<>>

Lookup ==
    \/ \E body \in SmallBodies : Settled /\ checkHandler(body)
    \/ \E fileID \in ContextIDs : Settled /\ contextHandler(fileID)
    \/ Deliver

Next == Tick \/ Ingest \/ Lookup

Spec == Init /\ [][Next]_vars

-----------------------------------------------------------------------------
(* Files that change between runs: the pipeline, the filesystem and the     *)
(* registry reads of GET /context.                                          *)

NextTouch ==
    \/ Tick
    \/ Touch
    \/ Ingest
    \/ \E fileID \in ContextIDs : Settled /\ contextHandler(fileID)
    \/ Deliver

SpecTouch == Init /\ [][NextTouch]_vars

-----------------------------------------------------------------------------
(* Request-size limits of /check: the stores hold what an ingestion of     *)
(* /data/a.log can have left, the requests are long ones.                  *)

\* n entries: v1 first, v2 at every other position
LongSeq(v1, v2, n) == [i \in 1..n |-> IF i = 1 THEN v1 ELSE v2]

LimitLengths == {0, 1, 2, MaxIOCsPerRequest - 1, MaxIOCsPerRequest,
                 MaxIOCsPerRequest + 1, MaxIOCsPerRequest + 2}

LimitBodies ==
    {BadBody} \cup {Body(LongSeq(v1, "nope.invalid", n)) :
                        v1 \in {"8.8.8.8", "nope.invalid"}, n \in LimitLengths}

IngestedBatch ==
    LET iocList == FlattenIOCs(Scan(BodyAddrDomain), GenerateFileID("/data/a.log"))
    IN [i \in 1..Len(iocList) |->
          [iocList[i] EXCEPT !.FirstSeen = FirstTick, !.LastSeen = FirstTick,
                             !.Confidence = 50, !.MalwareFamily = "Unknown"]]

InitLimits ==
    /\ fs = [p \in Paths |->
                [content |-> BodyAddrDomain, mtime |-> 0, kind |-> "file"]]
    /\ clock = FirstTick
    /\ file_registry = <<>>
    /\ ioc_store \in {<<>>, BatchInsertIOCs(<<>>, IngestedBatch)}
    /\ bloom \in SUBSET ScanValues(Scan(BodyAddrDomain))
    /\ bucket = [id \in FileIDs |-> NoObject]
    /\ run = [n |-> 0, active |-> FALSE]
    /\ walk = <<>>
    /\ jobs = <<>>
    /\ wk = [w \in 1..NumWorkers |-> IdleWorker]
    /\ stats = ZeroStats
    /\ hist = {}
    /\ faults = 0
    /\ resp = NoResp
    /\ sig = FALSE
    /\ walker = NoWalk
    /\ iresults = <<>>
    /\ collected = <<>>
    /\ gate = NoGate
    /\ shut = Running

NextLimits ==
    \/ \E body \in LimitBodies : checkHandler(body)
    \/ Deliver

SpecLimits == InitLimits /\ [][NextLimits]_vars

-----------------------------------------------------------------------------
(* Properties *)

IsCheck == resp.kind = "check"
IsContext == resp.kind = "context"
Answered == IsCheck /\ resp.status = StatusOK
ReqLen == Len(resp.req.IOCs)

\* C1: the results of an accepted bulk check have one entry per input, and
\* entry i carries input i, whatever the filter, the index or the stores did
C1_PositionalOrder ==
    Answered =>
        /\ Len(resp.results) = ReqLen
        /\ \A i \in 1..ReqLen : resp.results[i].IOC = resp.req.IOCs[i]

C1_Witness ==
    /\ Answered
    /\ resp.req.IOCs = <<"nope.invalid", "8.8.8.8">>
    /\ ~resp.results[1].Found
    /\ resp.results[2].Found

\* completed processFile calls that went through with every store available
CleanlyIngested ==
    {h \in hist : /\ h.outcome = "processed"
                  /\ h.lost = {} /\ h.insertOk /\ h.uploadOk /\ h.upsertOk}

\* v was extracted by some processFile call, finished or under way
Extracted(v) ==
    \/ \E h \in hist : v \in ScanValues(h.iocs)
    \/ \E w \in Workers : v \in ScanValues(wk[w].IOCs)

\* the file with this id holds v as an IOC of type t
FileHolds(id, v, t) ==
    \E p \in Paths :
        /\ GenerateFileID(p) = id
        /\ t \in DOMAIN Scan(fs[p].content)
        /\ v \in Range(Scan(fs[p].content)[t])

\* C2: with every store available, a value extracted from an ingested file
\* is found, with its type and a source file that holds it; a value never
\* ingested is not found
C2_EndToEnd ==
    (Answered /\ ~resp.bloomFailed /\ ~resp.queryFailed) =>
        \A i \in 1..ReqLen :
            LET v == resp.req.IOCs[i]
                r == resp.results[i]
            IN /\ (\E h \in CleanlyIngested : v \in ScanValues(h.iocs))
                    => r.Found /\ FileHolds(r.SourceFileID, v, r.Type)
               /\ ~Extracted(v) => ~r.Found

C2_Witness ==
    /\ Answered /\ ~resp.bloomFailed /\ ~resp.queryFailed
    /\ resp.req.IOCs = <<"8.8.8.8", "nope.invalid">>
    /\ \E h \in CleanlyIngested : "8.8.8.8" \in ScanValues(h.iocs)
    /\ resp.results[1].Found /\ resp.results[1].Type = "ipv4"
    /\ ~resp.results[2].Found
    /\ resp.total = 2 /\ resp.found = 1 /\ resp.not_found = 1

\* processFile calls whose index insert went through while the filter add
\* of v's type was lost
LostAdd(v) ==
    {h \in hist : /\ h.outcome = "processed" /\ h.insertOk
                  /\ \E t \in h.lost : v \in Range(h.iocs[t])}

\* C3: a value whose filter add was lost while its index insert succeeded
\* is still reported found by a later bulk check
C3_LostAddStillFound ==
    (Answered /\ ~resp.bloomFailed /\ ~resp.queryFailed) =>
        \A i \in 1..ReqLen :
            LostAdd(resp.req.IOCs[i]) # {} => resp.results[i].Found

\* the rows the index returned for v
RowsOf(v) == {k \in 1..Len(resp.rows) : resp.rows[k].Value = v}

Enriches(r, row) ==
    /\ r.Type = row.Type
    /\ r.SourceFileID = row.SourceFileID
    /\ r.MalwareFamily = row.MalwareFamily
    /\ r.Confidence = row.Confidence
    /\ r.FirstSeen = FormatRFC3339(row.FirstSeen)

\* C4: the enrichment reported for a value is that of a returned row with the
\* greatest last_seen among the rows of that value
C4_LatestRowWins ==
    Answered =>
        \A i \in 1..ReqLen :
            resp.results[i].Found =>
                \E k \in RowsOf(resp.req.IOCs[i]) :
                    /\ \A j \in RowsOf(resp.req.IOCs[i]) :
                            resp.rows[j].LastSeen <= resp.rows[k].LastSeen
                    /\ Enriches(resp.results[i], resp.rows[k])

\* C5: a failed index query is answered with a 5xx status
C5_IndexFailureIs5xx ==
    (IsCheck /\ resp.queryFailed) => resp.status >= StatusInternalServerError

InIndex(v) == \E k \in 1..Len(ioc_store) : ioc_store[k].ioc_value = v

\* C6: when the filter query fails, the index is asked for every input value,
\* the request is answered 200 and the verdicts are those of the index
C6_DegradedMode ==
    (IsCheck /\ resp.bloomFailed) =>
        /\ resp.status = StatusOK
        /\ resp.queried
        /\ resp.hits = resp.req.IOCs
        /\ ~resp.queryFailed =>
              \A i \in 1..ReqLen : resp.results[i].Found <=> InIndex(resp.req.IOCs[i])

C6_Witness ==
    /\ IsCheck /\ resp.bloomFailed /\ ~resp.queryFailed
    /\ "8.8.8.8" \notin bloom
    /\ resp.req.IOCs = <<"8.8.8.8", "nope.invalid">>
    /\ resp.results[1].Found
    /\ ~resp.results[2].Found

\* C7: /check is accepted iff it carries 1 to 1000 IOCs; an empty array and
\* one of 1001 or more are answered 400 (the latter "Too many IOCs") and
\* neither the filter nor the index is consulted
C7_RequestLimits ==
    IsCheck =>
        /\ resp.bloomAsked <=>
              (resp.req.parses /\ ReqLen >= 1 /\ ReqLen <= 1000)
        /\ resp.bloomAsked <=> resp.status = StatusOK
        /\ ~resp.bloomAsked =>
              /\ resp.status = StatusBadRequest
              /\ ~resp.queried
        /\ ReqLen >= 1001 => resp.error = "Too many IOCs"

C7_Witness ==
    /\ IsCheck
    /\ ReqLen = 1001
    /\ resp.status = StatusBadRequest
    /\ resp.error = "Too many IOCs"
    /\ ~resp.bloomAsked /\ ~resp.queried

\* C8: context retrieval answers 404 with the id echoed, without reading the
\* blob store, when the registry has no record of the id or the record's
\* blob_key is empty
C8_NotFoundWithoutBlobRead ==
    (/\ IsContext /\ resp.req # ""
     /\ \A row \in LatestRegistryRows(resp.req) : row.minio_key = "") =>
        /\ resp.status = StatusNotFound
        /\ resp.details = resp.req
        /\ ~resp.blobRead

\* the last completed processing of the file at path p
LastProcessed(p) ==
    {h \in hist : /\ h.path = p /\ h.outcome = "processed"
                  /\ \A g \in hist : (g.path = p /\ g.outcome = "processed")
                                        => g.run <= h.run}

BeingProcessed(p) ==
    \E w \in Workers : wk[w].job.FilePath = p /\ wk[w].pc # "send"

\* C9: once a file without IOCs is ingested with every store available,
\* context retrieval returns 200 with the bytes read at ingestion and the
\* file's path in X-Original-Path
C9_MiscRoundTrip ==
    \A p \in Paths :
        (/\ IsContext /\ resp.req = GenerateFileID(p)
         /\ ~resp.registryFailed /\ ~resp.blobFailed
         /\ ~BeingProcessed(p)
         /\ \E h \in LastProcessed(p) \cap CleanlyIngested : h.status = ScanStatusMisc) =>
            /\ resp.status = StatusOK
            /\ \A h \in LastProcessed(p) : resp.body = h.content
            /\ resp.XOriginalPath = p

C9_Witness ==
    /\ IsContext /\ resp.req = GenerateFileID("/data/b.txt")
    /\ \E h \in LastProcessed("/data/b.txt") \cap CleanlyIngested :
            h.status = ScanStatusMisc
    /\ resp.status = StatusOK
    /\ resp.body = BodyNone
    /\ resp.XOriginalPath = "/data/b.txt"

\* every file went through the first run and its registry upsert succeeded
FirstRunRecorded ==
    \A p \in Paths : \E h \in hist :
        h.run = 1 /\ h.path = p /\ h.outcome = "processed" /\ h.upsertOk

\* C10: a second run over the unchanged tree, after a first run whose
\* upserts succeeded, skips every file: files_processed = 0 and nothing is
\* written to the index, the blob store or the registry
C10_SecondRunSkipsAll ==
    (run.n = 2 /\ faults = 0 /\ FirstRunRecorded) =>
        /\ stats.FilesProcessed = 0
        /\ \A w \in Workers : wk[w].pc \in {"idle", "changed", "send"}
        /\ \A h \in hist : h.run = 2 => h.outcome = "skipped"

-----------------------------------------------------------------------------
(* Runs that receive the shutdown signal *)

NextCancel ==
    \/ Ingest
    \/ cancel

SpecCancel == Init /\ [][NextCancel]_vars

-----------------------------------------------------------------------------
\* the row of a file the registry received last
NewestRow(fileID) ==
    file_registry[Max({i \in 1..Len(file_registry) :
                          file_registry[i].file_id = fileID})]

\* C11: once a changed file has been reprocessed, every registry read for its
\* file_id returns the row written last, never an earlier one.
C11_NewRowShadows ==
    (IsContext /\ resp.meta # NoRow) => resp.meta = NewestRow(resp.req)

-----------------------------------------------------------------------------
\* the registry rows of a file
RowsFor(fileID) ==
    {file_registry[i] : i \in {j \in 1..Len(file_registry) :
                                  file_registry[j].file_id = fileID}}

\* C12: when the index batch insert of a file fails, the registry record
\* written for the file has scan_status = failed and a non-empty
\* error_message.
C12_InsertFailureMarksFailed ==
    \A h \in hist :
        (h.outcome = "processed" /\ ~h.insertOk /\ h.upsertOk) =>
            \E r \in RowsFor(h.file_id) :
                r.scan_status = ScanStatusFailed /\ r.error_message # ""

\* C13: when reading a file fails, a registry record with scan_status =
\* failed is upserted for its file_id before the worker moves on.
C13_ReadFailureRecorded ==
    \A h \in hist :
        h.outcome = "unread" =>
            \E r \in RowsFor(h.file_id) : r.scan_status = ScanStatusFailed

\* C14: every registry record with scan_status = infected has ioc_count > 0
\* and at least one index row whose source_file_id is its file_id.
C14_InfectedHasIOCs ==
    \A i \in 1..Len(file_registry) :
        file_registry[i].scan_status = ScanStatusInfected =>
            /\ file_registry[i].ioc_count > 0
            /\ \E j \in 1..Len(ioc_store) :
                  ioc_store[j].source_file_id = file_registry[i].file_id

\* C15: every registry record with scan_status = misc has minio_key =
\* file_id and an object stored under that key.
C15_MiscHasBlob ==
    \A i \in 1..Len(file_registry) :
        file_registry[i].scan_status = ScanStatusMisc =>
            /\ file_registry[i].minio_key = file_registry[i].file_id
            /\ bucket[file_registry[i].minio_key].present

\* C16: once a run has completed, every index row's source_file_id has a
\* registry record.
C16_IOCsResolve ==
    (run.n >= 1 /\ ~run.active) =>
        \A j \in 1..Len(ioc_store) : RowsFor(ioc_store[j].source_file_id) # {}

-----------------------------------------------------------------------------
\* the files the walker of the current run has enqueued, in order
Enqueued == SubSeq(WalkOrder, 1, Len(WalkOrder) - Len(walk))

RunReturned ==
    /\ run.n >= 1
    /\ ~run.active
    /\ \A h \in hist : h.run = run.n => h.outcome # "panicked"

-----------------------------------------------------------------------------
\* Ingestion of files that hold hexadecimal tokens or URLs, with every store
\* healthy.
InitScan ==
    /\ fs \in [Paths -> [content : HashBodies \cup UrlBodies \cup DupBodies
                                        \cup {BodyNone},
                         mtime : {0}, kind : {"file"}]]
    /\ fs["/data/a.log"].content \in HashBodies \cup UrlBodies \cup DupBodies
    /\ fs["/data/b.txt"].content = BodyNone
    /\ clock = FirstTick
    /\ file_registry = <<>>
    /\ ioc_store = <<>>
    /\ bloom = {}
    /\ bucket = [id \in FileIDs |-> NoObject]
    /\ run = [n |-> 0, active |-> FALSE]
    /\ walk = <<>>
    /\ jobs = <<>>
    /\ wk = [w \in 1..NumWorkers |-> IdleWorker]
    /\ stats = ZeroStats
    /\ hist = {}
    /\ faults = MaxFaults
    /\ resp = NoResp
    /\ sig = FALSE
    /\ walker = NoWalk
    /\ iresults = <<>>
    /\ collected = <<>>
    /\ gate = NoGate
    /\ shut = Running

NextScan == Ingest

SpecScan == InitScan /\ [][NextScan]_vars

\* the calls of Scan that the runs have made: processFile calls it once for
\* every file it has read
Scanned == {h \in hist : h.outcome \in {"processed", "panicked"}}

\* C18: Scan returns a result for every buffer; no call of it panics.
C18_ScanNeverPanics == \A h \in Scanned : h.outcome # "panicked"

\* the hash type whose pattern has the length of the token
TypeOfLen(tok) ==
    CASE Len(tok) = 32 -> "md5" [] Len(tok) = 40 -> "sha1" [] OTHER -> "sha256"

IsHashToken(tok) == \E n \in {32, 40, 64} : IsHex(tok, n)

IsConstantToken(tok) == tok \in {Rep("0", Len(tok)), Rep("f", Len(tok))}

Emitted(h, t, v) ==
    /\ t \in DOMAIN h.iocs
    /\ \E k \in 1..Len(h.iocs[t]) : h.iocs[t][k] = v

\* C19: a hex token of length 32, 40 or 64 made of 0 only or of f only (in
\* either case of the letter) is emitted under no hash type; every other hex token of those lengths is
\* emitted, lowercased, under the type of its length and under no other.
C19_HashTokensEmitted ==
    \A h \in Scanned :
        \A i \in 1..Len(h.content) :
            LET tok == h.content[i]
                lower == ToLowerStr(tok)
            IN IsHashToken(tok) =>
                IF IsConstantToken(lower)
                THEN \A t \in HashTypes : ~Emitted(h, t, lower)
                ELSE \A t \in HashTypes :
                        Emitted(h, t, lower) <=> t = TypeOfLen(tok)

\* C20: a buffer that holds one 64-character hex token, and nothing else,
\* yields exactly one IOC, of type sha256.
C20_OneSha256 ==
    \A h \in Scanned :
        (Len(h.content) = 1 /\ IsHex(h.content[1], 64)
                /\ ~IsConstantToken(ToLowerStr(h.content[1]))) =>
            /\ CountIOCs(h.iocs) = 1
            /\ DOMAIN h.iocs = {"sha256"}
            /\ h.iocs["sha256"] = <<ToLowerStr(h.content[1])>>

-----------------------------------------------------------------------------
\* the last byte of a URL match is removed when it is one of . , ; : ! ? )
TrimOnce(u) ==
    IF u # "" /\ SubSeq(u, Len(u), Len(u)) \in UrlCutset
    THEN SubSeq(u, 1, Len(u) - 1) ELSE u

\* C21: canonicalisation removes at most one trailing character of
\* . , ; : ! ? ) from a matched URL: every URL match is emitted without its
\* last character when that is one of them, and whole otherwise.
C21_UrlTrimmedOnce ==
    \A h \in Scanned : h.outcome = "processed" =>
        \A i \in 1..Len(h.content) :
            IsURL(h.content[i]) => Emitted(h, "url", TrimOnce(h.content[i]))

-----------------------------------------------------------------------------
\* the positions of an answered bulk check whose filter verdict is true
TruePositions == {i \in 1..ReqLen : resp.bloomResults[i]}

\* C25: an answered bulk check has asked the filter; it has queried the index
\* iff some position's verdict is true, and then once, with the values at
\* the true positions in input order; a position whose verdict is false is
\* reported found = false.
C25_FilterThenIndex ==
    Answered =>
        /\ resp.bloomAsked
        /\ Len(resp.bloomResults) = ReqLen
        /\ resp.queried <=> TruePositions # {}
        /\ Len(resp.hits) = Cardinality(TruePositions)
        /\ \A k \in 1..Len(resp.hits) :
              \E i \in TruePositions :
                  /\ Cardinality({j \in TruePositions : j <= i}) = k
                  /\ resp.hits[k] = resp.req.IOCs[i]
        /\ ~resp.queried => resp.rows = <<>>
        /\ \A i \in 1..ReqLen : ~resp.bloomResults[i] => ~resp.results[i].Found

\* a filter that separates its inputs: the index is asked for one of two
\* values, and for none of one
C25_Witness ==
    /\ Answered /\ ~resp.bloomFailed /\ ~resp.queryFailed
    /\ resp.req.IOCs = <<"nope.invalid", "8.8.8.8">>
    /\ resp.bloomResults = <<FALSE, TRUE>>
    /\ resp.queried
    /\ resp.hits = <<"8.8.8.8">>
    /\ resp.results[2].Found

\* C26: results[i].found is true iff the index returned a row whose value is
\* iocs[i]; a filter false positive is reported found = false; equal input
\* values receive equal results.
C26_FoundIffIndexRow ==
    Answered =>
        /\ \A i \in 1..ReqLen :
              resp.results[i].Found <=> RowsOf(resp.req.IOCs[i]) # {}
        /\ \A i \in 1..ReqLen :
              (resp.bloomResults[i] /\ ~InIndex(resp.req.IOCs[i]))
                  => ~resp.results[i].Found
        /\ \A i, j \in 1..ReqLen :
              resp.req.IOCs[i] = resp.req.IOCs[j]
                  => resp.results[i] = resp.results[j]

\* a false positive of the filter next to a value the index holds
C26_Witness ==
    /\ Answered /\ ~resp.bloomFailed /\ ~resp.queryFailed
    /\ resp.req.IOCs = <<"nope.invalid", "8.8.8.8">>
    /\ resp.bloomResults = <<TRUE, TRUE>>
    /\ "nope.invalid" \notin bloom
    /\ ~resp.results[1].Found
    /\ resp.results[2].Found

\* C27: total is the number of inputs, found the number of results with
\* found = true, and found + not_found = total.
C27_Counts ==
    Answered =>
        /\ resp.total = ReqLen
        /\ resp.found = Cardinality({i \in 1..Len(resp.results) : resp.results[i].Found})
        /\ resp.found + resp.not_found = resp.total

C27_Witness ==
    /\ Answered
    /\ resp.req.IOCs = <<"8.8.8.8", "8.8.8.8">>
    /\ resp.total = 2 /\ resp.found = 2 /\ resp.not_found = 0

-----------------------------------------------------------------------------
\* the store operations worker w has issued for the file it holds end with
\* op, and before it come exactly the operations of before, in that order
Issued(w, before, op) == wk'[w].ops = Append(before, op) /\ wk[w].ops = before

\* C24: within one file's processing the filter adds are issued before the
\* index insert and the index insert before the registry upsert: a step that
\* writes the index is the insert of a worker whose filter add is over, and
\* a step that writes the registry is the upsert of a worker whose index
\* insert (or, for a file without IOCs, whose upload) is over.
C24_StoreOrder ==
    [][/\ bloom' # bloom => \E w \in Workers : Issued(w, <<>>, "bloom")
       /\ ioc_store' # ioc_store =>
             \E w \in Workers : Issued(w, <<"bloom">>, "insert")
       /\ file_registry' # file_registry =>
             \E w \in Workers :
                 \/ Issued(w, <<"bloom", "insert">>, "upsert")
                 \/ Issued(w, <<"upload">>, "upsert")
       /\ \A w \in Workers :
             (wk'[w].pc = "send" /\ wk'[w].Status = ScanStatusInfected) =>
                 wk'[w].ops = <<"bloom", "insert", "upsert">>]_vars

\* a file with IOCs whose filter add failed and whose insert and upsert went
\* through
C24_Witness ==
    \E w \in Workers :
        /\ wk[w].pc = "send"
        /\ wk[w].ops = <<"bloom", "insert", "upsert">>
        /\ wk[w].lost # {}
        /\ wk[w].insertOk
        /\ RowsFor(wk[w].FileID) # {}
        /\ \E j \in 1..Len(ioc_store) : ioc_store[j].source_file_id = wk[w].FileID

-----------------------------------------------------------------------------
\* worker w takes the skip of change detection in this step
Skips(w) ==
    /\ wk[w].pc = "changed"
    /\ wk'[w].pc # "changed"
    /\ wk'[w].Status = ScanStatusClean

\* C28: a worker whose change detection finds the file unchanged writes
\* nothing: the step leaves registry, index, filter and blob store as they
\* are, the worker then holds only its result, with no store operation
\* issued, and the registry never holds a row with status clean.
C28_SkipWritesNothing ==
    [][/\ \A w \in Workers :
             Skips(w) =>
                 /\ UNCHANGED <<file_registry, ioc_store, bloom, bucket>>
                 /\ wk'[w].pc = "send"
       /\ \A w \in Workers :
             wk'[w].Status = ScanStatusClean => wk'[w].ops = <<>>
       /\ \A i \in 1..Len(file_registry') :
             file_registry'[i].scan_status # ScanStatusClean]_vars

\* a second pass over a file whose registry row says infected or misc
C28_Witness ==
    \E w \in Workers :
        /\ wk[w].pc = "send"
        /\ wk[w].Status = ScanStatusClean
        /\ run.n = 2
        /\ RowsFor(wk[w].FileID) # {}
        /\ \A row \in RowsFor(wk[w].FileID) :
              row.scan_status \in {ScanStatusInfected, ScanStatusMisc}

-----------------------------------------------------------------------------
\* The ingestor alone, with the scheduler running every goroutine that can
\* take a step.
NextIngest == Ingest

SpecIngest == Init /\ [][NextIngest]_vars /\ WF_vars(NextIngest)

\* a processFile call of the current run that met a failure
Failed(h) ==
    /\ h.run = run.n
    /\ \/ h.outcome = "unread"
       \/ h.outcome = "processed"
            /\ (h.lost # {} \/ ~h.insertOk \/ ~h.uploadOk \/ ~h.upsertOk)

\* C29: a failure on one file stops neither a worker nor the run: no worker
\* leaves its loop while the run is active, a started run completes, and at
\* its end every file of the tree has been through processFile.
C29_FailuresIsolated ==
    /\ [](\A w \in Workers : run.active => wk[w].pc # "returned")
    /\ [](RunReturned =>
            \A k \in 1..Len(WalkOrder) :
                \E h \in hist : h.run = run.n /\ h.path = WalkOrder[k])
    /\ (run.active ~> ~run.active)

\* a run in which the first file met a failure and the second was processed
C29_Witness ==
    /\ RunReturned
    /\ \E h \in hist : Failed(h) /\ h.path = WalkOrder[1]
    /\ \E g \in hist :
          /\ g.run = run.n /\ g.path = WalkOrder[2]
          /\ g.outcome = "processed" /\ g.upsertOk

-----------------------------------------------------------------------------
\* C30: every registry row satisfies the field constraints: infected rows
\* have ioc_count > 0, misc rows have ioc_count = 0 and a blob key, failed
\* rows have an error message, and only misc rows have a blob key.
C30_FieldConstraints ==
    \A i \in 1..Len(file_registry) :
        LET row == file_registry[i] IN
        /\ row.scan_status = ScanStatusInfected => row.ioc_count > 0
        /\ row.scan_status = ScanStatusMisc =>
              row.ioc_count = 0 /\ row.minio_key # ""
        /\ row.scan_status = ScanStatusFailed => row.error_message # ""
        /\ row.minio_key # "" => row.scan_status = ScanStatusMisc

\* a registry that holds an infected row and a misc row
C30_Witness ==
    /\ \E i \in 1..Len(file_registry) :
          /\ file_registry[i].scan_status = ScanStatusInfected
          /\ file_registry[i].ioc_count = 2
          /\ file_registry[i].minio_key = ""
    /\ \E i \in 1..Len(file_registry) :
          /\ file_registry[i].scan_status = ScanStatusMisc
          /\ file_registry[i].minio_key = file_registry[i].file_id

-----------------------------------------------------------------------------
(* middleware/auth.go: NewAuthMiddleware, and the rate limit counter of
   db/qdrant.go *)

StatusUnauthorized == 401
StatusTooManyRequests == 429

\* AuthConfig.RateLimit and AuthConfig.RateWindow (in seconds) of SetupRoutes
RateLimit == 1000
RateWindow == 60

MaxOver == 2            \* requests of one window beyond RateLimit

\* status of a response the middleware leaves to the next handler
NextHandler == 0

SkipPaths == {"/health", "/readyz", "/metrics"}

\* the routes of the group the middleware is mounted on
ProtectedRoutes == {"/check", "/context/6e1f0a", "/stats", "/search/fuzzy"}

\* skipPaths[path], or path starts with a skipped prefix
Skipped(path) ==
    path \in SkipPaths \/ \E p \in SkipPaths : HasPrefix(path, p)

TrimPrefix(s, prefix) ==
    IF HasPrefix(s, prefix) THEN SubSeq(s, Len(prefix) + 1, Len(s)) ELSE s

\* the key a request presents: X-API-Key, else the Bearer token of
\* Authorization, else none
PresentedKey(xkey, auth) ==
    IF xkey # "" THEN xkey
    ELSE IF HasPrefix(auth, "Bearer ") THEN TrimPrefix(auth, "Bearer ")
    ELSE ""

\* the validation of the key: the request is turned away
InvalidKey(APIKey, apiKey) == APIKey # "" /\ apiKey # APIKey

\* the script of IncrementRateLimit, run atomically by Redis: INCR, and EXPIRE
\* when INCR returned 1
IncrementRateLimit_noexpire(counter, key) ==
    [counter EXCEPT ![key] = [n |-> @.n + 1, ttl |-> @.ttl]]
IncrementRateLimit(counter, key) ==
    LET current == counter[key].n + 1 IN
    [counter EXCEPT ![key] =
        [n |-> current, ttl |-> IF current = 1 THEN RateWindow ELSE @.ttl]]

\* the outcome of IncrementRateLimit the middleware acts on: exceeded is
\* looked at only when err is nil
Exceeded_closed(redisOk, count) == ~redisOk \/ count > RateLimit
Exceeded(redisOk, count) == redisOk /\ count > RateLimit

GateResp(path, xkey, auth, status, reached) ==
    [kind |-> "auth", path |-> path, xkey |-> xkey, auth |-> auth,
     status |-> status, reached |-> reached, limited |-> FALSE,
     count |-> 0, key |-> ""]

\* one request passes through the middleware
authMiddleware(path, xkey, auth) ==
    /\ gate.resp = NoGateResp
    /\ LET apiKey == PresentedKey(xkey, auth)
           key == RateLimitKey(hashAPIKey(apiKey))
       IN
       IF Skipped(path)
       THEN gate' = [gate EXCEPT
                !.resp = GateResp(path, xkey, auth, NextHandler, TRUE)]
       ELSE IF apiKey = "" \/ InvalidKey(gate.APIKey, apiKey)
       THEN gate' = [gate EXCEPT
                !.resp = GateResp(path, xkey, auth, StatusUnauthorized, FALSE)]
       ELSE
         \* err of IncrementRateLimit, and whether the script ran all the same
         \E redisOk \in (IF gate.faulty THEN BOOLEAN ELSE {TRUE}) :
         \E ran \in (IF redisOk THEN {TRUE} ELSE BOOLEAN) :
           /\ ran => gate.counter[key].n < gate.burst
           /\ LET counter == IF ran THEN IncrementRateLimit(gate.counter, key)
                             ELSE gate.counter
                  count == IF redisOk THEN counter[key].n ELSE 0
                  exceeded == Exceeded(redisOk, count)
              IN
              gate' = [gate EXCEPT
                !.counter = counter,
                !.window[key] =
                    [admitted |-> IF @.outage \/ ~redisOk THEN 0
                                  ELSE IF exceeded THEN @.admitted
                                  ELSE @.admitted + 1,
                     outage |-> @.outage \/ ~redisOk],
                !.resp =
                    [GateResp(path, xkey, auth,
                              IF exceeded THEN StatusTooManyRequests
                              ELSE NextHandler,
                              ~exceeded)
                     EXCEPT !.limited = redisOk, !.count = count,
                            !.key = key]]
    /\ UNCHANGED <<fs, clock, file_registry, ioc_store, bloom, bucket, run,
                   walk, jobs, wk, stats, hist, faults, resp, pipe, shut>>

\* a second passes in Redis: every TTL goes down, a key whose TTL ran out is
\* deleted
RedisSecond ==
    /\ gate.resp = NoGateResp
    /\ \E k \in RateLimitKeys : gate.counter[k].ttl > 0
    /\ gate' = [gate EXCEPT
          !.counter = [k \in RateLimitKeys |->
              IF gate.counter[k].ttl = 0 THEN gate.counter[k]
              ELSE IF gate.counter[k].ttl = 1 THEN NoCounter
              ELSE [gate.counter[k] EXCEPT !.ttl = @ - 1]],
          !.window = [k \in RateLimitKeys |->
              IF gate.counter[k].ttl = 1 THEN NoWindow ELSE gate.window[k]]]
    /\ UNCHANGED <<fs, clock, file_registry, ioc_store, bloom, bucket, run,
                   walk, jobs, wk, stats, hist, faults, resp, pipe, shut>>

\* the client receives the response
GateDeliver ==
    /\ gate.resp # NoGateResp
    /\ gate' = [gate EXCEPT !.resp = NoGateResp]
    /\ UNCHANGED <<fs, clock, file_registry, ioc_store, bloom, bucket, run,
                   walk, jobs, wk, stats, hist, faults, resp, pipe, shut>>

NextGate ==
    \/ \E path \in gate.paths : \E h \in gate.headers :
          authMiddleware(path, h[1], h[2])
    \/ RedisSecond
    \/ GateDeliver

\* the store is empty and no ingestor runs: only the middleware acts
InitIdle ==
    /\ fs = [p \in Paths |-> [content |-> BodyNone, mtime |-> 0, kind |-> "file"]]
    /\ clock = FirstTick
    /\ file_registry = <<>>
    /\ ioc_store = <<>>
    /\ bloom = {}
    /\ bucket = [id \in FileIDs |-> NoObject]
    /\ run = [n |-> 0, active |-> FALSE]
    /\ walk = <<>>
    /\ jobs = <<>>
    /\ wk = [w \in 1..NumWorkers |-> IdleWorker]
    /\ stats = ZeroStats
    /\ hist = {}
    /\ faults = 0
    /\ resp = NoResp
    /\ sig = FALSE
    /\ walker = NoWalk
    /\ iresults = <<>>
    /\ collected = <<>>
    /\ shut = Running

\* API_KEY unset (the default) or set; requests to every route, with and
\* without a key, in either header: <<X-API-Key, Authorization>>
GateHeaders ==
    {<<"", "">>, <<"secret", "">>, <<"guess", "">>, <<"", "Bearer secret">>,
     <<"", "Bearer guess">>, <<"", "Basic secret">>,
     <<"guess", "Bearer secret">>}

InitGate ==
    /\ InitIdle
    /\ \E APIKey \in {"", "secret"} :
          gate = Gate(APIKey, ProtectedRoutes \cup {"/health"}, GateHeaders,
                      1, FALSE)

SpecGate == InitGate /\ [][NextGate]_vars

\* C22: a request to a protected route reaches its handler only if it carries
\* the configured API key in X-API-Key or as a Bearer token, and a request
\* with no key or a different key is answered 401, whatever the configured
\* key is, the default included.
C22_KeyRequired ==
    gate.resp # NoGateResp /\ gate.resp.path \in ProtectedRoutes =>
        LET bearer == IF HasPrefix(gate.resp.auth, "Bearer ")
                      THEN {TrimPrefix(gate.resp.auth, "Bearer ")} ELSE {}
            carried == ({gate.resp.xkey} \cup bearer) \ {""}
            presented == PresentedKey(gate.resp.xkey, gate.resp.auth)
        IN
        /\ gate.resp.reached => gate.APIKey \in carried
        /\ presented # gate.APIKey => gate.resp.status = StatusUnauthorized

-----------------------------------------------------------------------------
\* one client sends requests with the configured key, more than RateLimit of
\* them in a window, while seconds pass and Redis calls may fail
InitRate ==
    /\ InitIdle
    /\ gate = Gate("secret", {"/check"}, {<<"secret", "">>},
                   RateLimit + MaxOver, TRUE)

SpecRate == InitRate /\ [][NextGate]_vars

\* C23: for one API key, while no Redis call fails, at most RateLimit requests
\* are admitted between the creation of the counter key and its expiry, a
\* request is answered 429 exactly when the counter has passed RateLimit, and
\* the counter key always carries a TTL of at most RateWindow seconds, equal
\* to RateWindow at its first increment.
C23_RateLimited ==
    /\ \A k \in RateLimitKeys :
          /\ gate.counter[k].n > 0 => gate.counter[k].ttl \in 1..RateWindow
          /\ gate.counter[k].n = 0 => gate.window[k].admitted = 0
          /\ ~gate.window[k].outage =>
                /\ gate.window[k].admitted <= RateLimit
                /\ gate.window[k].admitted = Min({gate.counter[k].n, RateLimit})
    /\ gate.resp # NoGateResp /\ gate.resp.limited =>
          /\ gate.resp.status = StatusTooManyRequests
                <=> gate.resp.count > RateLimit
          /\ gate.resp.reached <=> gate.resp.count <= RateLimit
          /\ gate.resp.count = gate.counter[gate.resp.key].n
          /\ gate.resp.count = 1 =>
                gate.counter[gate.resp.key].ttl = RateWindow

\* the request after RateLimit admitted ones of a window that has lasted for
\* some seconds is answered 429
C23_Witness ==
    /\ gate.resp # NoGateResp
    /\ gate.resp.status = StatusTooManyRequests
    /\ gate.resp.count = RateLimit + 1
    /\ gate.window[gate.resp.key].admitted = RateLimit
    /\ ~gate.window[gate.resp.key].outage
    /\ gate.counter[gate.resp.key].ttl < RateWindow

-----------------------------------------------------------------------------
\* C40: when the IncrementRateLimit call fails, a request that carries a valid
\* key is passed on to its handler: it is not answered 429 nor with any other
\* status of the middleware.
C40_FailsOpen ==
    gate.resp # NoGateResp /\ gate.resp.key # "" /\ ~gate.resp.limited =>
        /\ gate.resp.reached
        /\ gate.resp.status = NextHandler

\* a Redis failure on a request that arrives after RateLimit requests of the
\* window have been counted
C40_Witness ==
    /\ gate.resp # NoGateResp
    /\ gate.resp.key # ""
    /\ ~gate.resp.limited
    /\ gate.resp.reached
    /\ gate.counter[gate.resp.key].n > RateLimit

-----------------------------------------------------------------------------
\* the values one token of the buffer contributes to a type
ValuesOf(t, tok) == Range(extract(t, <<tok>>))

\* the position of the first token of the buffer that contributes v
FirstSeenAt(t, content, v) ==
    Min({i \in 1..Len(content) : v \in ValuesOf(t, content[i])})

NoTwoAlike(batch) ==
    \A i, j \in 1..Len(batch) :
        (/\ batch[i].Type = batch[j].Type
         /\ batch[i].Value = batch[j].Value
         /\ batch[i].SourceFileID = batch[j].SourceFileID) => i = j

-----------------------------------------------------------------------------
\* the rows and blobs that do not belong to file f
OtherRows(registry, f) == SelectSeq(registry, LAMBDA r : r.file_id # f)
OtherIOCs(store, f) == SelectSeq(store, LAMBDA r : r.source_file_id # f)
OtherBlobs(bkt, f) == [id \in DOMAIN bkt \ {f} |-> bkt[id]]

\* a step of the API server: a response is produced or delivered
LookupStep == resp' # resp

-----------------------------------------------------------------------------
\* C39: a file whose registry upsert succeeded in one run is skipped by the
\* next run over the unchanged tree, whether or not the filter add, the index
\* insert or the blob upload of the first run succeeded; a file whose read or
\* whose upsert failed is attempted again.
C39_SkippedOnceRecorded ==
    \A h1, h2 \in hist :
        (h1.run = 1 /\ h2.run = 2 /\ h1.path = h2.path) =>
            /\ (h1.outcome = "processed" /\ h1.upsertOk) => h2.outcome = "skipped"
            /\ (h1.outcome = "unread" \/ (h1.outcome = "processed" /\ ~h1.upsertOk))
                  => h2.outcome # "skipped"

-----------------------------------------------------------------------------
(* The walk over a directory with entries of every kind *)

Entry(kind, content) == [content |-> content, mtime |-> 0, kind |-> kind]

\* a directory with regular files, a file whose stat fails (removed after the
\* directory was read) and a sub-directory that cannot be read
MixedTree ==
    [p \in {"/data", "/data/a.log", "/data/c.TXT", "/data/d.bin", "/data/e.md",
            "/data/old", "/data/z.log"} |->
        CASE p = "/data" -> Entry("dir", <<>>)
          [] p = "/data/e.md" -> Entry("nostat", BodyNone)
          [] p = "/data/old" -> Entry("noaccess", <<>>)
          [] p = "/data/a.log" -> Entry("file", BodyAddrDomain)
          [] OTHER -> Entry("file", BodyNone)]

\* FILE_EXTENSIONS unset, set to "," and set to ".TXT,.Log"
ExtensionLists == {DefaultExtensions, {}, {".TXT", ".Log"}}

InitWalk ==
    /\ fs = MixedTree
    /\ clock = FirstTick
    /\ file_registry = <<>>
    /\ ioc_store = <<>>
    /\ bloom = {}
    /\ bucket = [id \in {GenerateFileID(p) : p \in DOMAIN MixedTree} |-> NoObject]
    /\ run = [n |-> 0, active |-> FALSE]
    /\ walk = <<>>
    /\ jobs = <<>>
    /\ wk = [w \in 1..NumWorkers |-> IdleWorker]
    /\ stats = ZeroStats
    /\ hist = {}
    /\ faults = MaxFaults
    /\ resp = NoResp
    /\ sig = FALSE
    /\ walker \in {[NoWalk EXCEPT !.FileExtensions = l] : l \in ExtensionLists}
    /\ iresults = <<>>
    /\ collected = <<>>
    /\ gate = NoGate
    /\ shut = Running

SpecWalk == InitWalk /\ [][NextCancel]_vars

\* the entries the callback has been through
Visited == SubSeq(WalkDir(fs), 1, Len(WalkDir(fs)) - Len(walk))

\* the entry is a file whose stat succeeds and whose extension, in any case of
\* its letters, is in the allow-list, unless the list is empty
ToEnqueue(p) ==
    /\ fs[p].kind = "file"
    /\ \/ walker.FileExtensions = {}
       \/ \E e \in walker.FileExtensions : ToLowerStr(e) = ToLowerStr(Ext(p))

\* C34: as long as the walk is not cancelled, the jobs enqueued are, each
\* once and in the order of the walk, the entries gone through that are no
\* directory, whose stat succeeds and whose extension is allowed; an entry
\* whose access or stat fails does not end the walk.
C34_EnqueuedIffEligible ==
    (run.n > 0 /\ ~sig) =>
        /\ walker.sent = SelectSeq(Visited, ToEnqueue)
        /\ walker.pc = "done" => walk = <<>>

\* a walk with the allow-list .TXT, .Log has ended: the three files with these
\* extensions are enqueued, the last of them after the entries that failed
C34_Witness ==
    /\ run.n > 0 /\ ~sig /\ walker.pc = "done"
    /\ walker.FileExtensions = {".TXT", ".Log"}
    /\ walker.sent = <<"/data/a.log", "/data/c.TXT", "/data/z.log">>

-----------------------------------------------------------------------------
(* Run, step by step: the shutdown of the pipeline *)

\* close(i.jobs), close(i.results) and close(batchChan) have been executed
JobsClosed == shut.pc # "crawl"
ResultsClosed_never == FALSE
ResultsClosed == shut.pc \in {"wait_collector", "wait_batch", "returned", "closed"}
BatchClosed == shut.pc \in {"wait_batch", "returned", "closed"}

\* ingestor.Close() has run: i.ch.Close() and i.redis.Close()
HandlesClosed == shut.pc = "closed"

\* i.wg.Wait() returns: every worker has left its function
WorkersExited_nowait == TRUE
WorkersExited == \A w \in Workers : wk[w].pc \in {"exited", "returned"}

ShutFrame ==
    UNCHANGED <<fs, clock, file_registry, ioc_store, bloom, bucket, walk, jobs,
                stats, hist, faults, resp, pipe, gate>>

\* Run: crawl has returned; close(i.jobs)
Run_closeJobs ==
    /\ run.active
    /\ shut.pc = "crawl"
    /\ walker.pc = "done"
    /\ shut' = [shut EXCEPT !.pc = "wait_workers"]
    /\ UNCHANGED <<run, wk>>
    /\ ShutFrame

\* worker: the range loop over the closed and drained jobs channel ends
worker_exit(w) ==
    /\ run.active
    /\ wk[w].pc = "idle"
    /\ jobs = <<>>
    /\ JobsClosed
    /\ wk' = [wk EXCEPT ![w] = [IdleWorker EXCEPT !.pc = "exited"]]
    /\ UNCHANGED <<run, shut>>
    /\ ShutFrame

\* Run: i.wg.Wait() has returned; close(i.results)
Run_closeResults ==
    /\ run.active
    /\ shut.pc = "wait_workers"
    /\ WorkersExited
    /\ shut' = [shut EXCEPT !.pc = "wait_collector"]
    /\ UNCHANGED <<run, wk>>
    /\ ShutFrame

\* resultCollector: the receive on the closed and drained results channel
\* yields ok = false
resultCollector_exit ==
    /\ run.active
    /\ shut.collector = "running"
    /\ ResultsClosed
    /\ iresults = <<>>
    /\ shut' = [shut EXCEPT !.collector = "exited"]
    /\ UNCHANGED <<run, wk>>
    /\ ShutFrame

\* Run: collectorWg.Wait() has returned; close(batchChan)
Run_closeBatch ==
    /\ run.active
    /\ shut.pc = "wait_collector"
    /\ shut.collector = "exited"
    /\ shut' = [shut EXCEPT !.pc = "wait_batch"]
    /\ UNCHANGED <<run, wk>>
    /\ ShutFrame

\* batchProcessor: the range loop over the closed batch channel, to which
\* nothing is ever sent, ends
batchProcessor_exit ==
    /\ run.active
    /\ shut.batch = "running"
    /\ BatchClosed
    /\ shut' = [shut EXCEPT !.batch = "exited"]
    /\ UNCHANGED <<run, wk>>
    /\ ShutFrame

\* Run: batchWg.Wait() has returned; return nil
Run_return ==
    /\ run.active
    /\ shut.pc = "wait_batch"
    /\ shut.batch = "exited"
    /\ shut' = [shut EXCEPT !.pc = "returned"]
    /\ UNCHANGED <<run, wk>>
    /\ ShutFrame

\* main: PrintStats, then the deferred cancel() and ingestor.Close()
Close ==
    /\ run.active
    /\ shut.pc = "returned"
    /\ shut' = [shut EXCEPT !.pc = "closed"]
    /\ run' = [run EXCEPT !.active = FALSE]
    /\ UNCHANGED wk
    /\ ShutFrame

\* the goroutines of one ingestor
Pipeline ==
    \/ crawl
    \/ crawl_send
    \/ \E w \in Workers : worker(w)
    \/ \E w \in Workers : processFile_bloom(w)
    \/ \E w \in Workers : processFile_insert(w)
    \/ \E w \in Workers : processFile_upload(w)
    \/ \E w \in Workers : processFile_upsert(w)
    \/ \E w \in Workers : worker_send(w)
    \/ \E w \in Workers : worker_exit(w)
    \/ resultCollector
    \/ resultCollector_exit
    \/ batchProcessor_exit
    \/ Run_closeJobs
    \/ Run_closeResults
    \/ Run_closeBatch
    \/ Run_return
    \/ Close
    \/ \E w \in Workers : processFile_changed(w)

NextPool == StartRun \/ cancel \/ Pipeline

\* one worker and six files, which fill both queues, or two workers and
\* three files; the first file holds indicators
PoolFiles(n) ==
    IF n = 1
    THEN {"/data/a.log", "/data/b.txt", "/data/c.TXT", "/data/d.bin",
          "/data/e.md", "/data/z.log"}
    ELSE {"/data/a.log", "/data/b.txt", "/data/z.log"}

PoolTree(files) ==
    [p \in files |->
        Entry("file", IF p = "/data/a.log" THEN BodyAddrDomain ELSE BodyNone)]

\* FILE_EXTENSIONS lists no extension: every file is eligible.  Either two
\* runs on stores that answer, or the last run of an ingestor whose earlier
\* runs found nothing, on stores that can fail
InitPoolOf(files) ==
    /\ \E n \in 1..MaxWorkers :
        /\ wk = [w \in 1..n |-> IdleWorker]
        /\ fs = PoolTree(files[n])
        /\ bucket = [id \in {GenerateFileID(p) : p \in files[n]} |-> NoObject]
    /\ clock = FirstTick
    /\ file_registry = <<>>
    /\ ioc_store = <<>>
    /\ bloom = {}
    /\ \E earlier \in {0, MaxRuns - 1} :
        /\ run = [n |-> earlier, active |-> FALSE]
        /\ faults = IF earlier = 0 THEN MaxFaults ELSE 0
    /\ walk = <<>>
    /\ jobs = <<>>
    /\ stats = ZeroStats
    /\ hist = {}
    /\ resp = NoResp
    /\ sig = FALSE
    /\ walker = [NoWalk EXCEPT !.FileExtensions = {}]
    /\ iresults = <<>>
    /\ collected = <<>>
    /\ gate = NoGate
    /\ shut = Running

InitPool == InitPoolOf([n \in 1..MaxWorkers |-> PoolFiles(n)])

SpecPool == InitPool /\ [][NextPool]_vars

\* C33: backpressure.  With N workers the jobs queue and the results queue
\* never hold more than 2N elements; while jobs holds 2N the walker enqueues
\* nothing, and while results holds 2N no worker leaves its send, so the
\* walker is never more than 2N queued files ahead of the workers
Received == Len(walker.sent) - Len(jobs)

C33_Backpressure ==
    /\ [](/\ Len(jobs) <= 2 * Cardinality(DOMAIN wk)
          /\ Len(iresults) <= 2 * Cardinality(DOMAIN wk)
          /\ run.active => Len(walker.sent) <= Received + 2 * Cardinality(DOMAIN wk))
    /\ [][(run.active /\ run'.active) =>
            /\ Len(jobs) >= 2 * Cardinality(DOMAIN wk) =>
                    /\ walker'.sent = walker.sent
                    /\ walker.pc = "send" => walker'.pc = "send" \/ sig
            /\ Len(iresults) >= 2 * Cardinality(DOMAIN wk) =>
                    \A w \in DOMAIN wk : wk[w].pc = "send" => wk'[w].pc = "send"]_vars

\* both queues of a one-worker ingestor are full, the walker is blocked in
\* its send and the worker in its own
C33_Witness ==
    /\ run.active
    /\ ~sig
    /\ walker.pc = "send"
    /\ Len(jobs) = 2 * Cardinality(DOMAIN wk)
    /\ Len(iresults) = 2 * Cardinality(DOMAIN wk)
    /\ \E w \in DOMAIN wk : wk[w].pc = "send"

\* C37: within a run every enqueued job is received by exactly one worker
\* and processed exactly once; no two workers process the same file_id at
\* the same time, and at most N files are in process
Processing == {w \in DOMAIN wk : wk[w].pc \in {"changed", "bloom", "insert", "upload", "upsert"}}

Holding == {w \in DOMAIN wk : wk[w].pc \in {"changed", "bloom", "insert", "upload", "upsert", "send"}}

\* how often the job of path p is queued, with a worker, or past its worker
Copies(p, js, ws, rs, cs) ==
    Cardinality({i \in 1..Len(js) : js[i].FilePath = p})
    + Cardinality({w \in DOMAIN ws : ws[w].pc \notin {"idle", "exited", "returned"}
                                      /\ ws[w].job.FilePath = p})
    + Cardinality({i \in 1..Len(rs) : rs[i].FilePath = p})
    + Cardinality({i \in 1..Len(cs) : cs[i].FilePath = p})

\* 0 queued, 1 with a worker in processFile, 2 processed, 3 sent, 4 collected
Stage(p, ws, rs, cs) ==
    IF \E i \in 1..Len(cs) : cs[i].FilePath = p THEN 4
    ELSE IF \E i \in 1..Len(rs) : rs[i].FilePath = p THEN 3
    ELSE IF \E w \in DOMAIN ws : ws[w].pc = "send" /\ ws[w].job.FilePath = p THEN 2
    ELSE IF \E w \in DOMAIN ws : ws[w].pc \notin {"idle", "exited", "returned"}
                                  /\ ws[w].job.FilePath = p THEN 1
    ELSE 0

Outcomes(st) == st.FilesProcessed + st.FilesSkipped + st.FilesFailed

InfectedCount(r) == IF r.Status = ScanStatusInfected THEN r.IOCCount ELSE 0

InfectedTotal(rs) == SumSeq([i \in 1..Len(rs) |-> InfectedCount(rs[i])])

C32_ShutdownInOrder ==
    [][/\ (~JobsClosed /\ JobsClosed') => walker.pc = "done"
       /\ (~ResultsClosed /\ ResultsClosed') =>
              /\ JobsClosed
              /\ \A w \in DOMAIN wk : wk[w].pc \in {"exited", "returned"}
       /\ (~BatchClosed /\ BatchClosed') =>
              ResultsClosed /\ shut.collector = "exited"
       /\ (~HandlesClosed /\ HandlesClosed') =>
              /\ BatchClosed
              /\ shut.collector = "exited"
              /\ shut.batch = "exited"
              /\ \A w \in DOMAIN wk : wk[w].pc \in {"exited", "returned"}
       /\ Len(jobs') > Len(jobs) => ~JobsClosed
       /\ Len(iresults') > Len(iresults) => ~ResultsClosed
       /\ \A w \in DOMAIN wk :
              (wk[w].pc \in {"changed", "bloom", "insert", "upload", "upsert", "send"}
                 /\ wk'[w] # wk[w]) => ~HandlesClosed /\ ~ResultsClosed
       /\ (shut.collector = "running" /\ shut'.collector = "exited") =>
              iresults = <<>> /\ ResultsClosed
      ]_vars

\* the handles are closed after a run in which the walker enqueued six jobs,
\* the worker processed them and the collector received them
C32_Witness ==
    /\ HandlesClosed
    /\ ~run.active
    /\ Len(walker.sent) = 6
    /\ Len(collected) = 6
    /\ file_registry # <<>>

-----------------------------------------------------------------------------
(* Termination of Run *)

\* one worker and four files, or two workers and two files.  The Go scheduler
\* runs every goroutine that can take a step; the signal and the next start
\* of the ingestor are up to the operator
TermFiles(n) ==
    IF n = 1 THEN {"/data/a.log", "/data/b.txt", "/data/c.TXT", "/data/z.log"}
    ELSE {"/data/a.log", "/data/b.txt"}

InitTerm == InitPoolOf([n \in 1..MaxWorkers |-> TermFiles(n)])

SpecTerm == InitTerm /\ [][NextPool]_vars /\ WF_vars(Pipeline)

\* Run has returned and main has closed the ingestor: the walker has
\* returned, every worker, the collector and the batch processor have exited
Terminated ==
    /\ ~run.active
    /\ shut.pc = "closed"
    /\ walker.pc = "done"
    /\ \A w \in DOMAIN wk : wk[w].pc \in {"exited", "returned"}
    /\ shut.collector = "exited"
    /\ shut.batch = "exited"
    /\ jobs = <<>>
    /\ iresults = <<>>

=============================================================================
